---- MODULE Spec2Model ----
(***************************************************************************)
(* Progression simulation engine of idle-industry-busy-hands:              *)
(* ResourceManager / ResourceState, TimeSystem and GameState.              *)
(*                                                                         *)
(* Number representation.  The program computes with Python floats; the    *)
(* model uses exact integers.  Resource values, amounts, effect values and *)
(* dt (real seconds) are whole numbers.  time_multiplier and year_progress *)
(* are fixed-point numbers with denominator Q (= 4): the stored integer is *)
(* 4 times the program's float, so 0.25x speed is 1, 1.0x speed is 4 and a *)
(* complete year of progress is 4.  All inputs are chosen so that every    *)
(* product the code forms is exactly representable.                        *)
(***************************************************************************)
EXTENDS Integers, Sequences, FiniteSets, TLC

\* ------------------------------------------------------------------ bounds
MaxValue == 12
MaxYearsElapsed == 3
MaxDt == 2
MaxAdditions == 2
MaxMultiplier == 2
MaxCooldown == 2

\* ------------------------------------------------------- program constants
Q == 4
START_YEAR == 1800
YEARS_PER_REAL_SECOND == 1
DEFAULT_SPEED == 1 * Q
MAX_SPEED == 16 * Q
MIN_SPEED == Q \div 4
INITIAL_VALUE_FACTOR == 10

\* ------------------------------------------------------------ catalog data
\* ResourceDefinition instances handed to ResourceManager.__init__.
ResourceDefinitions ==
  [ money |-> [base_production |-> 1, min_value |-> 0, unlock_year |-> 0, requires |-> <<>>],
    rep   |-> [base_production |-> 1, min_value |-> 2, unlock_year |-> 0, requires |-> <<>>],
    tech  |-> [base_production |-> 0, min_value |-> 0, unlock_year |-> START_YEAR + 1,
               requires |-> <<"u1">>],
    late  |-> [base_production |-> 0, min_value |-> 0, unlock_year |-> START_YEAR + 2,
               requires |-> <<>>],
    guild |-> [base_production |-> 0, min_value |-> 0, unlock_year |-> 0,
               requires |-> <<"a", "u1">>] ]

ResourceIds == DOMAIN ResourceDefinitions

\* A resource id that is in no catalog (dict.get returns None for it).
UnknownResource == "ghost"

\* ResourceCost(resource, amount)
Cost(r, a) == [resource |-> r, amount |-> a]

\* ResourceEffect(resource, effect, value)
Effect(r, e, v) == [resource |-> r, effect |-> e, value |-> v]

\* Shapes of Upgrade.exclusive_group: None, a string, or a list of strings.
NoGroup == [kind |-> "none", names |-> <<>>]
StrGroup(g) == [kind |-> "str", names |-> <<g>>]
ListGroup(gs) == [kind |-> "list", names |-> gs]

\* Shapes of an entry of Upgrade.requires: a plain id or a nested list (OR).
Direct(id) == [isList |-> FALSE, ids |-> <<id>>]
AnyOf(ids) == [isList |-> TRUE, ids |-> ids]

\* Upgrade(id, year, cost, effects, exclusive_group, requires)
Upgrade(id, year, cost, effects, eg, requires) ==
  [id |-> id, year |-> year, cost |-> cost, effects |-> effects,
   exclusive_group |-> eg, requires |-> requires]

\* The upgrade catalog (all_upgrades: id -> Upgrade).
all_upgrades ==
  [ u1 |-> Upgrade("u1", 0, <<Cost("money", 5)>>,
                   <<Effect("money", "add", 1)>>, NoGroup, <<>>),
    u2 |-> Upgrade("u2", 0, <<Cost("money", 6), Cost("money", 6)>>,
                   <<Effect("rep", "mult", 2), Effect(UnknownResource, "add", 1)>>,
                   NoGroup, <<Direct("u1")>>),
    u3 |-> Upgrade("u3", START_YEAR + 1, <<Cost("money", 4), Cost("rep", 12)>>,
                   <<Effect("money", "mult", 2), Effect("money", "add_rate", 5)>>,
                   NoGroup, <<AnyOf(<<"a", "b">>)>>),
    a  |-> Upgrade("a", 0, <<Cost("money", 3)>>,
                   <<Effect("rep", "add", -2)>>, StrGroup("G"), <<>>),
    b  |-> Upgrade("b", 0, <<>>,
                   <<Effect("money", "add", 1)>>, ListGroup(<<"H", "G">>), <<>>),
    c  |-> Upgrade("c", START_YEAR + 2, <<Cost("rep", 3)>>,
                   <<>>, StrGroup("H"), <<Direct("u1"), AnyOf(<<>>)>>),
    d  |-> Upgrade("d", 0, <<Cost("rep", 1)>>,
                   <<>>, StrGroup("H"), <<>>) ]

UpgradeIds == DOMAIN all_upgrades

\* An upgrade id that is not in the catalog.
UnknownUpgrade == "zz"

VARIABLES
  resources,           \* ResourceManager.resources: id -> ResourceState
  owned_upgrades,      \* GameState.owned_upgrades
  selected_exclusive,  \* GameState.selected_exclusive: group -> upgrade id
  current_year,        \* TimeSystem.current_year
  year_progress,       \* TimeSystem.year_progress (fixed point, Q = one year)
  time_multiplier,     \* TimeSystem.time_multiplier (fixed point, Q = 1.0x)
  paused,              \* TimeSystem.paused
  year_listeners,      \* TimeSystem._year_listeners (registration order)
  notified,            \* listener calls made by the last operation, in order
  save_data,           \* the payload written by SaveSystem.save (NoSave before)
  active_event,        \* GameState.active_event (an event id, NoEvent for None)
  event_manager,       \* EventManager: triggered flags and pending_event
  event_system,        \* EventSystem: active_event, triggered_events, cooldowns
  event_popup,         \* EventPopup: visible, event, _paused_by_popup
  last                 \* the last operation: name, arguments, return value

vars == <<resources, owned_upgrades, selected_exclusive, current_year,
          year_progress, time_multiplier, paused, year_listeners, notified,
          save_data, active_event, event_manager, event_system, event_popup, last>>

extVars == <<save_data, active_event, event_manager, event_system, event_popup>>

eventVars == <<active_event, event_manager, event_system, event_popup>>

timeVars == <<current_year, year_progress, time_multiplier, paused, year_listeners>>
gameVars == <<owned_upgrades, selected_exclusive>>

\* ------------------------------------------------------- sequence helpers
Max(x, y) == IF x > y THEN x ELSE y
Min(x, y) == IF x < y THEN x ELSE y

InSeq(x, s) == \E i \in 1..Len(s) : s[i] = x

\* dict[key] = value on a dict modelled as a function
DictSet(dict, key, value) ==
  [k \in DOMAIN dict \cup {key} |-> IF k = key THEN value ELSE dict[k]]

EmptyDict == [k \in {} |-> ""]

\* -------------------------------------------------- ResourceDefinition
is_dynamic(definition) ==
  definition.unlock_year > 0 \/ Len(definition.requires) > 0

\* ------------------------------------------------------- ResourceState
ResourceState(cv, unlocked) ==
  [current_value |-> cv, is_unlocked |-> unlocked,
   base_additions |-> 0, total_multiplier |-> 1]

get_production_per_second(res, definition) ==
  (definition.base_production + res.base_additions) * res.total_multiplier

\* an update without the floor
ResourceState_update_unclamped(res, definition, dt) ==
  [res EXCEPT !.current_value = @ + get_production_per_second(res, definition) * dt]

ResourceState_update(res, definition, dt) ==
  LET production == get_production_per_second(res, definition)
      v == res.current_value + production * dt
  IN  [res EXCEPT !.current_value =
         IF v < definition.min_value THEN definition.min_value ELSE v]

reset_modifiers_noreset(res) == res

reset_modifiers(res) ==
  [res EXCEPT !.base_additions = 0, !.total_multiplier = 1]

\* an apply_effect that handles "add" only
ResourceState_apply_effect_add_only(res, effect) ==
  IF effect.effect = "add"
    THEN [res EXCEPT !.base_additions = @ + effect.value]
  ELSE res

ResourceState_apply_effect(res, effect) ==
  IF effect.effect = "add"
    THEN [res EXCEPT !.base_additions = @ + effect.value]
  ELSE IF effect.effect = "mult"
    THEN [res EXCEPT !.total_multiplier = @ * effect.value]
  ELSE res

\* ----------------------------------------------------- ResourceManager
\* ResourceManager.__init__
ResourceManager_init ==
  [r \in ResourceIds |->
     ResourceState(ResourceDefinitions[r].base_production * INITIAL_VALUE_FACTOR,
                   ~is_dynamic(ResourceDefinitions[r]))]

get_value(rs, resource_id) ==
  IF resource_id \in DOMAIN rs THEN rs[resource_id].current_value ELSE 0

\* spend returns the pair (return value, resources after the call)
spend_strict(rs, resource_id, amount) ==
  IF resource_id \in DOMAIN rs /\ rs[resource_id].current_value > amount
    THEN [ret |-> TRUE,
          rs |-> [rs EXCEPT ![resource_id].current_value = @ - amount]]
    ELSE [ret |-> FALSE, rs |-> rs]

spend(rs, resource_id, amount) ==
  IF resource_id \in DOMAIN rs /\ rs[resource_id].current_value >= amount
    THEN [ret |-> TRUE,
          rs |-> [rs EXCEPT ![resource_id].current_value = @ - amount]]
    ELSE [ret |-> FALSE, rs |-> rs]

RECURSIVE can_afford_from(_, _, _)
can_afford_from(rs, costs, i) ==
  IF i > Len(costs) THEN TRUE
  ELSE IF costs[i].resource \notin DOMAIN rs
          \/ rs[costs[i].resource].current_value < costs[i].amount
    THEN FALSE
  ELSE can_afford_from(rs, costs, i + 1)

can_afford(rs, costs) == can_afford_from(rs, costs, 1)

\* the loop of pay_costs: spend each cost in list order, results ignored
RECURSIVE spend_each(_, _, _)
spend_each(rs, costs, i) ==
  IF i > Len(costs) THEN rs
  ELSE spend_each(spend(rs, costs[i].resource, costs[i].amount).rs, costs, i + 1)

\* a pay_costs that spends entry by entry and stops at the first failure
RECURSIVE pay_costs_greedy_from(_, _, _)
pay_costs_greedy_from(rs, costs, i) ==
  IF i > Len(costs) THEN [ret |-> TRUE, rs |-> rs]
  ELSE LET s == spend(rs, costs[i].resource, costs[i].amount)
       IN  IF s.ret THEN pay_costs_greedy_from(s.rs, costs, i + 1)
           ELSE [ret |-> FALSE, rs |-> rs]

pay_costs_greedy(rs, costs) == pay_costs_greedy_from(rs, costs, 1)

pay_costs(rs, costs) ==
  IF ~can_afford(rs, costs) THEN [ret |-> FALSE, rs |-> rs]
  ELSE [ret |-> TRUE, rs |-> spend_each(rs, costs, 1)]

\* an apply_effect that hands a known resource's effect to every resource
apply_effect_untargeted(rs, effect) ==
  IF effect.resource \in DOMAIN rs
    THEN [r \in DOMAIN rs |-> ResourceState_apply_effect(rs[r], effect)]
    ELSE rs

\* ResourceManager.apply_effect
apply_effect(rs, effect) ==
  IF effect.resource \in DOMAIN rs
    THEN [rs EXCEPT ![effect.resource] = ResourceState_apply_effect(@, effect)]
    ELSE rs

RECURSIVE apply_effects(_, _, _)
apply_effects(rs, effects, i) ==
  IF i > Len(effects) THEN rs
  ELSE apply_effects(apply_effect(rs, effects[i]), effects, i + 1)

\* the loop over owned_upgrades; Python's set order is unspecified, the
\* integer sums and products formed here do not depend on it
RECURSIVE apply_owned(_, _, _)
apply_owned(rs, owned, upgrades) ==
  IF owned = {} THEN rs
  ELSE LET upgrade_id == CHOOSE x \in owned : TRUE
           next == IF upgrade_id \in DOMAIN upgrades
                     THEN apply_effects(rs, upgrades[upgrade_id].effects, 1)
                     ELSE rs
       IN  apply_owned(next, owned \ {upgrade_id}, upgrades)

recalculate_production(rs, owned, upgrades) ==
  apply_owned([r \in DOMAIN rs |-> reset_modifiers(rs[r])], owned, upgrades)

ResourceManager_update(rs, dt) ==
  [r \in DOMAIN rs |-> ResourceState_update(rs[r], ResourceDefinitions[r], dt)]

\* check_and_unlock_resources returns the pair (return value, resources
\* after the call)
check_and_unlock_resources(rs, year, owned) ==
  LET unlocks(r) ==
        /\ ~rs[r].is_unlocked
        /\ ~(ResourceDefinitions[r].unlock_year < year)
        /\ \A i \in 1..Len(ResourceDefinitions[r].requires) :
              ResourceDefinitions[r].requires[i] \in owned
  IN  [ret |-> \E r \in DOMAIN rs : unlocks(r),
       rs  |-> [r \in DOMAIN rs |->
                  IF unlocks(r) THEN [rs[r] EXCEPT !.is_unlocked = TRUE] ELSE rs[r]]]

\* ----------------------------------------------------------- TimeSystem
\* a loop body that runs at most once
complete_years_once(year, progress) ==
  IF progress >= Q THEN [current_year |-> year + 1, year_progress |-> progress - Q]
  ELSE [current_year |-> year, year_progress |-> progress]

\* the while loop of TimeSystem.update: complete years leave year_progress
RECURSIVE complete_years(_, _)
complete_years(year, progress) ==
  IF progress >= Q THEN complete_years(year + 1, progress - Q)
  ELSE [current_year |-> year, year_progress |-> progress]

\* listeners whose callback raises an Exception whenever it is called
RaisingListeners == {"bad"}

\* a notification loop without the try/except: it ends at the first callback
\* that raises
notify_year_change_unguarded(listeners, year) ==
  LET stop == IF \E i \in 1..Len(listeners) : listeners[i] \in RaisingListeners
                THEN CHOOSE k \in 1..Len(listeners) :
                       /\ listeners[k] \in RaisingListeners
                       /\ \A j \in 1..(k - 1) : listeners[j] \notin RaisingListeners
                ELSE Len(listeners)
  IN  [i \in 1..stop |-> <<listeners[i], year>>]

\* _notify_year_change: one call per registered listener, in registration
\* order, each with the current year; a call is the pair <<listener, year>>.
\* Each call sits in try/except Exception, so a callback that raises does not
\* end the loop and nothing propagates to the caller.
notify_year_change(listeners, year) ==
  [i \in 1..Len(listeners) |-> <<listeners[i], year>>]

\* an update without the early return for the paused state
TimeSystem_update_nopause(year, progress, multiplier, isPaused, listeners, dt) ==
  LET t == complete_years(year, progress + dt * multiplier * YEARS_PER_REAL_SECOND)
  IN  [current_year |-> t.current_year,
       year_progress |-> t.year_progress,
       calls |-> IF t.current_year # year
                   THEN notify_year_change(listeners, t.current_year)
                   ELSE <<>>]

\* TimeSystem.update(dt): the new year, the new progress and the listener
\* calls made
TimeSystem_update(year, progress, multiplier, isPaused, listeners, dt) ==
  IF isPaused
    THEN [current_year |-> year, year_progress |-> progress, calls |-> <<>>]
  ELSE
    LET effective_speed == multiplier * YEARS_PER_REAL_SECOND
        year_delta == dt * effective_speed
        t == complete_years(year, progress + year_delta)
    IN  [current_year |-> t.current_year,
         year_progress |-> t.year_progress,
         calls |-> IF t.current_year # year
                     THEN notify_year_change(listeners, t.current_year)
                     ELSE <<>>]

get_effective_time_scale(isPaused, multiplier) ==
  IF isPaused THEN 0 ELSE multiplier

\* a set_speed that clamps from above only
set_speed_upper_only(multiplier) == Min(MAX_SPEED, multiplier)

\* a set_year that keeps the progress through the year
set_year_keep_progress(year, progress, listeners, new_year) ==
  [current_year |-> new_year,
   year_progress |-> progress,
   calls |-> IF new_year # year THEN notify_year_change(listeners, new_year) ELSE <<>>]

\* TimeSystem.set_year(year): the clock and the listener calls after the call
set_year(year, progress, listeners, new_year) ==
  [current_year |-> new_year,
   year_progress |-> 0,
   calls |-> IF new_year # year THEN notify_year_change(listeners, new_year) ELSE <<>>]

\* TimeSystem.advance_year()
advance_year(year, progress, listeners) ==
  [current_year |-> year + 1,
   year_progress |-> 0,
   calls |-> notify_year_change(listeners, year + 1)]

\* set_speed: max(min_multiplier, min(max_multiplier, multiplier))
set_speed(multiplier) == Max(MIN_SPEED, Min(MAX_SPEED, multiplier))

\* ------------------------------------------------------------ GameState
requirement_met(req, owned) ==
  IF req.isList
    THEN \E i \in 1..Len(req.ids) : req.ids[i] \in owned
    ELSE req.ids[1] \in owned

requirement_met_all(req, owned) ==
  \A i \in 1..Len(req.ids) : req.ids[i] \in owned

RECURSIVE requires_met_from(_, _, _)
requires_met_from(requires, owned, i) ==
  IF i > Len(requires) THEN TRUE
  ELSE IF ~requirement_met(requires[i], owned) THEN FALSE
  ELSE requires_met_from(requires, owned, i + 1)

check_requirements_met_and(upgrade, owned, year) ==
  IF \E i \in 1..Len(upgrade.requires) :
        ~requirement_met_all(upgrade.requires[i], owned)
    THEN FALSE
  ELSE IF upgrade.year > year THEN FALSE
  ELSE TRUE

check_requirements_met(upgrade, owned, year) ==
  IF ~requires_met_from(upgrade.requires, owned, 1) THEN FALSE
  ELSE IF upgrade.year > year THEN FALSE
  ELSE TRUE

\* `not upgrade.exclusive_group`: None, the empty string and the empty list are
\* falsy; a list is truthy as soon as it has an element, even [""]
has_exclusive_group(upgrade) ==
  /\ upgrade.exclusive_group.kind # "none"
  /\ Len(upgrade.exclusive_group.names) > 0
  /\ ~(upgrade.exclusive_group.kind = "str" /\ upgrade.exclusive_group.names[1] = "")

\* groups = exclusive_group if isinstance(exclusive_group, list) else [exclusive_group]
groups_of(upgrade) == upgrade.exclusive_group.names

\* a slot check that looks at the last listed group only
groups_free_from_last(groups, upgrade_id, selected, i) ==
  LET n == Len(groups)
  IN  IF n = 0 THEN TRUE
      ELSE ~(groups[n] \in DOMAIN selected /\ selected[groups[n]] # upgrade_id)

RECURSIVE groups_free_from(_, _, _, _)
groups_free_from(groups, upgrade_id, selected, i) ==
  IF i > Len(groups) THEN TRUE
  ELSE IF groups[i] \in DOMAIN selected /\ selected[groups[i]] # upgrade_id
    THEN FALSE
  ELSE groups_free_from(groups, upgrade_id, selected, i + 1)

check_exclusive_group_available_first(upgrade, selected) ==
  IF ~has_exclusive_group(upgrade) THEN TRUE
  ELSE groups_free_from(<<groups_of(upgrade)[1]>>, upgrade.id, selected, 1)

check_exclusive_group_available(upgrade, selected) ==
  IF ~has_exclusive_group(upgrade) THEN TRUE
  ELSE groups_free_from(groups_of(upgrade), upgrade.id, selected, 1)

is_upgrade_available_affordable(upgrade_id, owned, selected, year, rs) ==
  IF upgrade_id \in owned THEN FALSE
  ELSE IF upgrade_id \notin DOMAIN all_upgrades THEN FALSE
  ELSE IF ~check_requirements_met(all_upgrades[upgrade_id], owned, year) THEN FALSE
  ELSE IF ~check_exclusive_group_available(all_upgrades[upgrade_id], selected) THEN FALSE
  ELSE can_afford(rs, all_upgrades[upgrade_id].cost)

\* rs (the resources) is passed as the rest of the program state the method
\* can read; the code does not look at it
is_upgrade_available(upgrade_id, owned, selected, year, rs) ==
  IF upgrade_id \in owned THEN FALSE
  ELSE IF upgrade_id \notin DOMAIN all_upgrades THEN FALSE
  ELSE IF ~check_requirements_met(all_upgrades[upgrade_id], owned, year) THEN FALSE
  ELSE IF ~check_exclusive_group_available(all_upgrades[upgrade_id], selected) THEN FALSE
  ELSE TRUE

\* a selection that records the first listed group only
select_groups_first(selected, groups, upgrade_id, i) ==
  IF Len(groups) = 0 THEN selected
  ELSE DictSet(selected, groups[1], upgrade_id)

\* for group in groups: selected_exclusive[group] = upgrade_id
RECURSIVE select_groups(_, _, _, _)
select_groups(selected, groups, upgrade_id, i) ==
  IF i > Len(groups) THEN selected
  ELSE select_groups(DictSet(selected, groups[i], upgrade_id), groups, upgrade_id, i + 1)

\* a purchase that does not ask is_upgrade_available
purchase_upgrade_unchecked(upgrade_id, rs, owned, selected, year) ==
  IF upgrade_id \notin DOMAIN all_upgrades
    THEN [ret |-> FALSE, rs |-> rs, owned |-> owned, selected |-> selected]
  ELSE
    LET upgrade == all_upgrades[upgrade_id]
        paid == pay_costs(rs, upgrade.cost)
        owned2 == owned \cup {upgrade_id}
    IN  IF ~paid.ret
          THEN [ret |-> FALSE, rs |-> paid.rs, owned |-> owned, selected |-> selected]
          ELSE [ret |-> TRUE,
                rs |-> recalculate_production(paid.rs, owned2, all_upgrades),
                owned |-> owned2,
                selected |-> select_groups(selected, groups_of(upgrade), upgrade_id, 1)]

\* purchase_upgrade: return value and the state after the call
purchase_upgrade(upgrade_id, rs, owned, selected, year) ==
  LET unchanged == [ret |-> FALSE, rs |-> rs, owned |-> owned, selected |-> selected]
  IN
  IF ~is_upgrade_available(upgrade_id, owned, selected, year, rs) THEN unchanged
  ELSE IF upgrade_id \notin DOMAIN all_upgrades THEN unchanged
  ELSE
    LET upgrade == all_upgrades[upgrade_id]
        paid == pay_costs(rs, upgrade.cost)
    IN  \* pay_costs works on the manager in place: what it left is kept
        IF ~paid.ret THEN [unchanged EXCEPT !.rs = paid.rs]
        ELSE
          LET owned2 == owned \cup {upgrade_id}
              selected2 == IF has_exclusive_group(upgrade)
                             THEN select_groups(selected, groups_of(upgrade), upgrade_id, 1)
                             ELSE selected
          IN  [ret |-> TRUE,
               rs |-> recalculate_production(paid.rs, owned2, all_upgrades),
               owned |-> owned2,
               selected |-> selected2]

\* GameState.reset: owned_upgrades and selected_exclusive are cleared; every
\* resource gets current_value = base_production * 10 and reset_modifiers()
\* (is_unlocked is not assigned); the clock gets the literals 1800, 0.0, False
\* and 1.0
GameState_reset(rs) ==
  [rs |-> [r \in DOMAIN rs |->
             reset_modifiers([rs[r] EXCEPT !.current_value =
                                ResourceDefinitions[r].base_production * 10])],
   owned |-> {},
   selected |-> EmptyDict,
   current_year |-> 1800,
   year_progress |-> 0,
   paused |-> FALSE,
   time_multiplier |-> 1 * Q]

\* f"locked_year_{upgrade.year}"
locked_year(year) == "locked_year_" \o ToString(year)

\* a status that never looks at the cost
get_upgrade_status_no_afford(upgrade_id, owned, selected, year, rs) ==
  IF upgrade_id \in owned THEN "owned"
  ELSE IF upgrade_id \notin DOMAIN all_upgrades THEN "unknown"
  ELSE IF all_upgrades[upgrade_id].year > year
    THEN locked_year(all_upgrades[upgrade_id].year)
  ELSE IF ~check_exclusive_group_available(all_upgrades[upgrade_id], selected)
    THEN "exclusive_blocked"
  ELSE IF ~check_requirements_met(all_upgrades[upgrade_id], owned, year)
    THEN "requirements_not_met"
  ELSE "available"

\* GameState.get_upgrade_status: the checks in the order of the code (owned,
\* unknown id, year lock, exclusive group, requirements, affordability)
get_upgrade_status(upgrade_id, owned, selected, year, rs) ==
  IF upgrade_id \in owned THEN "owned"
  ELSE IF upgrade_id \notin DOMAIN all_upgrades THEN "unknown"
  ELSE IF all_upgrades[upgrade_id].year > year
    THEN locked_year(all_upgrades[upgrade_id].year)
  ELSE IF ~check_exclusive_group_available(all_upgrades[upgrade_id], selected)
    THEN "exclusive_blocked"
  ELSE IF ~check_requirements_met(all_upgrades[upgrade_id], owned, year)
    THEN "requirements_not_met"
  ELSE IF ~can_afford(rs, all_upgrades[upgrade_id].cost)
    THEN "cannot_afford"
  ELSE "available"

\* GameState.update(dt, time_scale); time_scale is fixed point, the product
\* is a whole number of seconds for the inputs used
GameState_update(rs, dt, time_scale) ==
  LET scaled_dt == (dt * time_scale) \div Q
  IN  ResourceManager_update(rs, scaled_dt)

\* a skip check that only refuses going backwards
can_time_skip_to_year_forward_only(rs, year, target_year) ==
  ~(target_year <= year)

\* GameState.can_time_skip_to_year: forward only, and no resource projected
\* below its floor at two seconds of production per skipped year
can_time_skip_to_year(rs, year, target_year) ==
  IF target_year <= year THEN FALSE
  ELSE LET years_to_skip == target_year - year
       IN  \A r \in DOMAIN rs :
             LET production_rate == get_production_per_second(rs[r], ResourceDefinitions[r])
                 projected_value == rs[r].current_value + production_rate * years_to_skip * 2
             IN  ~(projected_value < ResourceDefinitions[r].min_value)

\* the callback loop of time_skip_to_year: for year in range(first, stop),
\* every callback is called with that year
RECURSIVE skip_callbacks(_, _, _)
skip_callbacks(listeners, first, stop) ==
  IF first >= stop THEN <<>>
  ELSE notify_year_change(listeners, first) \o skip_callbacks(listeners, first + 1, stop)

\* a skip that does not ask can_time_skip_to_year
time_skip_to_year_unchecked(rs, year, progress, listeners, target_year) ==
  [ret |-> TRUE,
   rs |-> [r \in DOMAIN rs |->
             [rs[r] EXCEPT !.current_value =
                Max(ResourceDefinitions[r].min_value,
                    rs[r].current_value
                      + get_production_per_second(rs[r], ResourceDefinitions[r])
                          * (target_year - year) * 2)]],
   current_year |-> target_year,
   year_progress |-> 0,
   calls |-> <<>>]

\* GameState.time_skip_to_year: the return value, the resources, the clock and
\* the listener calls after the call.  The callback loop runs after
\* time_system.current_year has been assigned, and self.current_year reads
\* that same field, so its range starts at target_year + 1.
time_skip_to_year(rs, year, progress, listeners, target_year) ==
  IF ~can_time_skip_to_year(rs, year, target_year)
    THEN [ret |-> FALSE, rs |-> rs, current_year |-> year, year_progress |-> progress,
          calls |-> <<>>]
    ELSE LET years_to_skip == target_year - year
             skipped(r) ==
               LET production_rate == get_production_per_second(rs[r], ResourceDefinitions[r])
                   v == rs[r].current_value + production_rate * years_to_skip * 2
               IN  [rs[r] EXCEPT !.current_value = Max(ResourceDefinitions[r].min_value, v)]
             new_year == target_year
         IN  [ret |-> TRUE,
              rs |-> [r \in DOMAIN rs |-> skipped(r)],
              current_year |-> new_year,
              year_progress |-> 0,
              calls |-> skip_callbacks(listeners, new_year + 1, target_year + 1)]

\* year-change listeners that buy an upgrade when called
\* (callback(year): game_state.purchase_upgrade(id)); the other listeners only
\* record the call
BuyingListeners == [buy_u1 |-> "u1", buy_u3 |-> "u3"]

\* the bodies of the callbacks of _notify_year_change, in call order: the game
\* state after the calls.  A buying listener runs purchase_upgrade against the
\* clock that TimeSystem.update has already advanced.
RECURSIVE run_listeners(_, _, _, _, _, _)
run_listeners(calls, rs, owned, selected, year, i) ==
  IF i > Len(calls) THEN [rs |-> rs, owned |-> owned, selected |-> selected]
  ELSE IF calls[i][1] \in DOMAIN BuyingListeners
    THEN LET p == purchase_upgrade(BuyingListeners[calls[i][1]], rs, owned, selected, year)
         IN  run_listeners(calls, p.rs, p.owned, p.selected, year, i + 1)
  ELSE run_listeners(calls, rs, owned, selected, year, i + 1)

\* Game.update(dt): TimeSystem.update(dt) with the listeners it calls, then
\* get_effective_time_scale(), then GameState.update(dt, time_scale)
Game_update(rs, owned, selected, year, progress, multiplier, isPaused, listeners, dt) ==
  LET t == TimeSystem_update(year, progress, multiplier, isPaused, listeners, dt)
      g == run_listeners(t.calls, rs, owned, selected, t.current_year, 1)
      time_scale == get_effective_time_scale(isPaused, multiplier)
  IN  [current_year |-> t.current_year,
       year_progress |-> t.year_progress,
       calls |-> t.calls,
       before_update |-> g.rs,
       rs |-> GameState_update(g.rs, dt, time_scale),
       owned |-> g.owned,
       selected |-> g.selected]

\* ------------------------------------------------------------ SaveSystem
\* no save payload has been written yet
NoSave == [written |-> FALSE]

\* SaveSystem.save followed by SaveSystem.load: the payload read back.  The
\* JSON round trip keeps the values (floats, strings, an int), turns the set
\* of owned ids into a list (apply_save makes a set of it again) and adds a
\* version and a timestamp that apply_save does not read.  The dictionary
\* read back is an object of its own: shared is whether
\* game_state.selected_exclusive is the payload's dictionary object.
save(rs, owned, selected, year) ==
  [written |-> TRUE,
   resources |-> [r \in DOMAIN rs |-> rs[r].current_value],
   owned_upgrades |-> owned,
   selected_exclusive |-> selected,
   current_year |-> year,
   shared |-> FALSE]

\* an in-place write to game_state.selected_exclusive (purchase_upgrade's
\* item assignment, reset's clear()) is a write to the payload's dictionary
\* once apply_save has stored that dictionary in the game state
written_through(data, selected) ==
  IF data.written /\ data.shared
    THEN [data EXCEPT !.selected_exclusive = selected]
    ELSE data

\* SaveSystem.apply_save: the state after the call and whether it raised.
\* The values, owned_upgrades and selected_exclusive are assigned first; the
\* next statement assigns game_state.current_year, a property of GameState
\* without a setter, which raises AttributeError, so the clock is not
\* touched and recalculate_production is not reached.  owned_upgrades is a
\* new set; selected_exclusive is the payload's own dictionary, not a copy.
apply_save(data, rs, owned, selected, year) ==
  LET restored == [r \in DOMAIN rs |->
                     IF r \in DOMAIN data.resources
                       THEN [rs[r] EXCEPT !.current_value = data.resources[r]]
                       ELSE rs[r]]
  IN  [raised |-> TRUE,
       rs |-> restored,
       owned |-> data.owned_upgrades,
       selected |-> data.selected_exclusive,
       current_year |-> year,
       data |-> [data EXCEPT !.shared = TRUE]]

\* ------------------------------------------------------------------ Init
Last(op, id, amount, costs, owned, ret) ==
  [op |-> op, id |-> id, amount |-> amount, costs |-> costs, owned |-> owned, ret |-> ret,
   changed |-> FALSE, kind |-> "", raised |-> FALSE, since |-> -1]

\* None, for a field that holds an event or None
NoEvent == "none"

\* Event(id, trigger_type, trigger_value): trigger_value is a year for
\* trigger_type "year" and a list of upgrade ids for "upgrades"
YearEvent(id, year) ==
  [id |-> id, trigger_type |-> "year", trigger_year |-> year, trigger_upgrades |-> <<>>]
UpgradesEvent(id, ids) ==
  [id |-> id, trigger_type |-> "upgrades", trigger_year |-> 0, trigger_upgrades |-> ids]

\* EventManager.events, and the order in which the dict yields them
Events ==
  [ e_year |-> YearEvent("e_year", START_YEAR + 1),
    e_up   |-> UpgradesEvent("e_up", <<"u1", "a">>),
    e_late |-> YearEvent("e_late", START_YEAR + 2),
    e_odd  |-> [id |-> "e_odd", trigger_type |-> "resource", trigger_year |-> 0,
                trigger_upgrades |-> <<>>] ]

EventOrder == <<"e_year", "e_up", "e_late", "e_odd">>

\* the trigger test of check_triggers for one event
event_due(event, year, owned) ==
  IF event.trigger_type = "year" THEN year >= event.trigger_year
  ELSE IF event.trigger_type = "upgrades"
    THEN \A i \in 1..Len(event.trigger_upgrades) : event.trigger_upgrades[i] \in owned
  ELSE FALSE

\* a loop that does not skip triggered events: the first event that is due
first_due_again(triggered, year, owned, i) ==
  LET due == {k \in i..Len(EventOrder) : event_due(Events[EventOrder[k]], year, owned)}
  IN  IF due = {} THEN NoEvent
      ELSE EventOrder[CHOOSE k \in due : \A j \in due : k <= j]

\* the loop of check_triggers from position i: the first event that is not
\* yet triggered and is due, or NoEvent
RECURSIVE first_due(_, _, _, _)
first_due(triggered, year, owned, i) ==
  IF i > Len(EventOrder) THEN NoEvent
  ELSE IF EventOrder[i] \in triggered THEN first_due(triggered, year, owned, i + 1)
  ELSE IF event_due(Events[EventOrder[i]], year, owned) THEN EventOrder[i]
  ELSE first_due(triggered, year, owned, i + 1)

\* a check_triggers that does not look at pending_event
check_triggers_unblocked(em, year, owned) ==
  LET e == first_due(em.triggered, year, owned, 1)
  IN  IF e = NoEvent THEN [ret |-> NoEvent, em |-> em]
      ELSE [ret |-> e,
            em |-> [triggered |-> em.triggered \cup {e}, pending_event |-> e]]

\* EventManager.check_triggers: the event returned (NoEvent for None) and the
\* manager after the call
check_triggers(em, year, owned) ==
  IF em.pending_event # NoEvent THEN [ret |-> NoEvent, em |-> em]
  ELSE LET e == first_due(em.triggered, year, owned, 1)
       IN  IF e = NoEvent THEN [ret |-> NoEvent, em |-> em]
           ELSE [ret |-> e,
                 em |-> [triggered |-> em.triggered \cup {e}, pending_event |-> e]]

\* a clear_pending that clears nothing
clear_pending_kept(em) == em

\* EventManager.clear_pending
clear_pending(em) == [em EXCEPT !.pending_event = NoEvent]

\* EventChoice(id, cost, effects) of definitions/event.py
EventChoice(id, cost, effects) == [id |-> id, cost |-> cost, effects |-> effects]

\* GameState.check_events: the active event and the manager after the call
check_events(active, em, year, owned) ==
  IF active # NoEvent THEN [active_event |-> active, em |-> em]
  ELSE LET c == check_triggers(em, year, owned)
       IN  [active_event |-> IF c.ret # NoEvent THEN c.ret ELSE active, em |-> c.em]

\* a handler that leaves the manager's pending event in place
handle_event_choice_keep_pending(choice, rs, active, em) ==
  IF ~can_afford(rs, choice.cost)
    THEN [ret |-> FALSE, rs |-> rs, active_event |-> active, em |-> em]
    ELSE [ret |-> TRUE,
          rs |-> apply_effects(spend_each(rs, choice.cost, 1), choice.effects, 1),
          active_event |-> NoEvent,
          em |-> em]

\* GameState.handle_event_choice: every cost is spent (the return value of
\* spend is not looked at), every effect goes through apply_effect, the
\* active event and the manager's pending event are cleared
handle_event_choice(choice, rs, active, em) ==
  IF ~can_afford(rs, choice.cost)
    THEN [ret |-> FALSE, rs |-> rs, active_event |-> active, em |-> em]
    ELSE [ret |-> TRUE,
          rs |-> apply_effects(spend_each(rs, choice.cost, 1), choice.effects, 1),
          active_event |-> NoEvent,
          em |-> clear_pending(em)]

EventManager_init == [triggered |-> {}, pending_event |-> NoEvent]

\* ----------------------------------------------------------- EventSystem
\* EventTrigger(resource, threshold, comparison)
Trigger(r, cmp, t) == [resource |-> r, comparison |-> cmp, threshold |-> t]

\* Event(id, triggers, one_time, cooldown) of events.py; cooldown in seconds
ThresholdEvent(id, triggers, one_time, cooldown) ==
  [id |-> id, triggers |-> triggers, one_time |-> one_time, cooldown |-> cooldown]

\* EventSystem.events after the add_event calls, and the dict's order
ThresholdEvents ==
  [ void |-> ThresholdEvent("void", <<>>, FALSE, 0),
    boom |-> ThresholdEvent("boom", <<Trigger("money", ">=", 11)>>, TRUE, 0),
    tick |-> ThresholdEvent("tick", <<Trigger("money", ">", 7)>>, FALSE, MaxCooldown),
    dip  |-> ThresholdEvent("dip", <<Trigger("rep", "<", 10), Trigger(UnknownResource, "<=", 1)>>,
                            TRUE, 1),
    low  |-> ThresholdEvent("low", <<Trigger("money", "<=", 7), Trigger("money", "~", 7)>>,
                            FALSE, 0),
    poor |-> ThresholdEvent("poor", <<Trigger("money", "<=", 7), Trigger("rep", "==", 10)>>,
                            TRUE, 1) ]

ThresholdEventOrder == <<"void", "boom", "tick", "dip", "low", "poor">>

\* EventTrigger.check; values are whole numbers, so |value - threshold| < 0.01
\* is equality
trigger_check(trigger, rs) ==
  IF trigger.resource \notin DOMAIN rs THEN FALSE
  ELSE LET value == rs[trigger.resource].current_value
       IN  IF trigger.comparison = ">=" THEN value >= trigger.threshold
           ELSE IF trigger.comparison = "<=" THEN value <= trigger.threshold
           ELSE IF trigger.comparison = ">" THEN value > trigger.threshold
           ELSE IF trigger.comparison = "<" THEN value < trigger.threshold
           ELSE IF trigger.comparison = "==" THEN value = trigger.threshold
           ELSE FALSE

\* EventSystem._check_triggers: false without triggers, else all must hold
check_event_triggers(event, rs) ==
  IF Len(event.triggers) = 0 THEN FALSE
  ELSE \A i \in 1..Len(event.triggers) : trigger_check(event.triggers[i], rs)

\* the cooldown loop of update: every entry is reduced by dt and deleted
\* when it is no longer positive
tick_cooldowns(cooldowns, dt) ==
  [e \in {x \in DOMAIN cooldowns : cooldowns[x] - dt > 0} |-> cooldowns[e] - dt]

\* a _trigger_event that starts no cooldown
trigger_event_no_cooldown(es, event) ==
  [es EXCEPT !.active_event = event.id,
             !.triggered_events = IF event.one_time THEN @ \cup {event.id} ELSE @,
             !.elapsed = [@ EXCEPT ![event.id] = 0]]

\* EventSystem._trigger_event.  elapsed is an observation, not a field of the
\* class: the dt summed since the event last triggered, -1 before
trigger_event(es, event) ==
  [es EXCEPT !.active_event = event.id,
             !.triggered_events = IF event.one_time THEN @ \cup {event.id} ELSE @,
             !.event_cooldowns = IF event.cooldown > 0
                                   THEN DictSet(@, event.id, event.cooldown)
                                   ELSE @,
             !.elapsed = [@ EXCEPT ![event.id] = 0]]

\* a trigger loop that does not skip one-time events already triggered
first_triggered_repeat(es, rs, i) ==
  LET due == {k \in i..Len(ThresholdEventOrder) :
                /\ ThresholdEventOrder[k] \notin DOMAIN es.event_cooldowns
                /\ check_event_triggers(ThresholdEvents[ThresholdEventOrder[k]], rs)}
  IN  IF due = {} THEN NoEvent
      ELSE ThresholdEventOrder[CHOOSE k \in due : \A j \in due : k <= j]

\* the trigger loop of update from position i: the first event that is not
\* a triggered one-time event, is not on cooldown and has all triggers met
RECURSIVE first_triggered(_, _, _)
first_triggered(es, rs, i) ==
  IF i > Len(ThresholdEventOrder) THEN NoEvent
  ELSE LET event == ThresholdEvents[ThresholdEventOrder[i]]
       IN  IF event.one_time /\ event.id \in es.triggered_events
             THEN first_triggered(es, rs, i + 1)
           ELSE IF event.id \in DOMAIN es.event_cooldowns
             THEN first_triggered(es, rs, i + 1)
           ELSE IF check_event_triggers(event, rs) THEN event.id
           ELSE first_triggered(es, rs, i + 1)

\* dt added to the time observed since each event's last trigger
add_elapsed(es, dt) ==
  [es EXCEPT !.elapsed = [e \in DOMAIN @ |->
                            IF @[e] < 0 THEN @[e] ELSE Min(@[e] + dt, MaxCooldown + 1)]]

\* an update that looks for events also while one is active
EventSystem_update_while_active(es, rs, dt) ==
  LET ticked == add_elapsed([es EXCEPT !.event_cooldowns = tick_cooldowns(@, dt)], dt)
      e == first_triggered(ticked, rs, 1)
  IN  IF e = NoEvent THEN [es |-> ticked, triggered |-> NoEvent]
      ELSE [es |-> trigger_event(ticked, ThresholdEvents[e]), triggered |-> e]

\* EventSystem.update(dt): the system after the call and the event handed to
\* on_event_triggered (NoEvent when the callback is not called)
EventSystem_update(es, rs, dt) ==
  LET ticked == add_elapsed([es EXCEPT !.event_cooldowns = tick_cooldowns(@, dt)], dt)
  IN  IF ticked.active_event # NoEvent THEN [es |-> ticked, triggered |-> NoEvent]
      ELSE LET e == first_triggered(ticked, rs, 1)
           IN  IF e = NoEvent THEN [es |-> ticked, triggered |-> NoEvent]
               ELSE [es |-> trigger_event(ticked, ThresholdEvents[e]), triggered |-> e]

\* EventChoice(effects, costs, requirements) of events.py
Choice(id, effects, costs, requirements) ==
  [id |-> id, effects |-> effects, costs |-> costs, requirements |-> requirements]

\* EventSystem.make_choice: return value, whether the call raised, and the
\* system and resources after the call.  The effect loop calls
\* res_state.apply_temp_effect, a method ResourceState does not have: the
\* first effect that names a known resource raises AttributeError, after the
\* costs were paid and before active_event is cleared.
make_choice(es, choice, rs, owned) ==
  LET refused == [ret |-> FALSE, raised |-> FALSE, es |-> es, rs |-> rs]
  IN  IF es.active_event = NoEvent THEN refused
      ELSE IF \E i \in 1..Len(choice.requirements) : choice.requirements[i] \notin owned
        THEN refused
      ELSE IF ~can_afford(rs, choice.costs) THEN refused
      ELSE LET paid == pay_costs(rs, choice.costs)
           IN  IF ~paid.ret THEN [refused EXCEPT !.rs = paid.rs]
               ELSE IF \E i \in 1..Len(choice.effects) :
                         choice.effects[i].resource \in DOMAIN rs
                 THEN [ret |-> FALSE, raised |-> TRUE, es |-> es, rs |-> paid.rs]
               ELSE [ret |-> TRUE, raised |-> FALSE,
                     es |-> [es EXCEPT !.active_event = NoEvent], rs |-> paid.rs]

EventSystem_init ==
  [active_event |-> NoEvent, triggered_events |-> {}, event_cooldowns |-> EmptyDict,
   elapsed |-> [e \in DOMAIN ThresholdEvents |-> -1]]

\* ------------------------------------------------------------ EventPopup
\* EventPopup.show(event): the popup and the TimeSystem's paused flag after
\* the call
EventPopup_show(popup, isPaused, event) ==
  LET shown == [popup EXCEPT !.event = event, !.visible = TRUE]
  IN  IF ~isPaused
        THEN [popup |-> [shown EXCEPT !.paused_by_popup = TRUE], paused |-> ~isPaused]
        ELSE [popup |-> shown, paused |-> isPaused]

\* EventPopup.hide()
EventPopup_hide(popup, isPaused) ==
  LET hidden == [popup EXCEPT !.event = NoEvent, !.visible = FALSE]
  IN  IF popup.paused_by_popup
        THEN [popup |-> [hidden EXCEPT !.paused_by_popup = FALSE], paused |-> ~isPaused]
        ELSE [popup |-> hidden, paused |-> isPaused]

\* EventPopup.__init__; chosen is an observation, not a field: the pause state
\* the player last chose (the game starts running)
EventPopup_init ==
  [visible |-> FALSE, event |-> NoEvent, paused_by_popup |-> FALSE, chosen |-> FALSE]

Init ==
  /\ resources = ResourceManager_init
  /\ owned_upgrades = {}
  /\ selected_exclusive = EmptyDict
  /\ current_year = START_YEAR
  /\ year_progress = 0
  /\ time_multiplier = DEFAULT_SPEED
  /\ paused = FALSE
  /\ year_listeners = <<>>
  /\ notified = <<>>
  /\ save_data = NoSave
  /\ active_event = NoEvent
  /\ event_manager = EventManager_init
  /\ event_system = EventSystem_init
  /\ event_popup = EventPopup_init
  /\ last = Last("init", "", 0, <<>>, {}, FALSE)

\* ------------------------------------------------ bounds on the state
ValuesBounded(rs) ==
  \A r \in DOMAIN rs :
    /\ rs[r].current_value <= MaxValue
    /\ rs[r].current_value >= -MaxValue
    /\ rs[r].base_additions <= MaxAdditions
    /\ rs[r].base_additions >= -MaxAdditions
    /\ rs[r].total_multiplier <= MaxMultiplier
    /\ rs[r].total_multiplier >= -MaxMultiplier

\* --------------------------------------------- ResourceManager operations
SpendAmounts == {-2, 3, 10}

SpendResources == {"money", "rep", UnknownResource}

CostLists ==
  { <<>>,
    <<Cost("money", 5)>>,
    <<Cost("money", 6), Cost("money", 6)>>,
    <<Cost("money", 4), Cost("rep", 12)>>,
    <<Cost("rep", 3), Cost(UnknownResource, 1)>> }

EffectInputs ==
  { Effect("money", "add", 1),
    Effect("rep", "add", -2),
    Effect("rep", "mult", 2),
    Effect("money", "mult", 2),
    Effect(UnknownResource, "add", 1),
    Effect("money", "add_rate", 5) }

OwnedInputs == { {}, {"u1"}, {"u1", "u2"}, {"a", "u3"}, {"b", UnknownUpgrade} }

Update(dt) ==
  /\ resources' = ResourceManager_update(resources, dt)
  /\ ValuesBounded(resources')
  /\ last' = Last("update", "", dt, <<>>, {}, TRUE)
  /\ notified' = <<>>
  /\ UNCHANGED <<extVars, gameVars, timeVars>>

Spend(resource_id, amount) ==
  LET s == spend(resources, resource_id, amount)
  IN  /\ resources' = s.rs
      /\ ValuesBounded(resources')
      /\ last' = Last("spend", resource_id, amount, <<>>, {}, s.ret)
      /\ notified' = <<>>
      /\ UNCHANGED <<extVars, gameVars, timeVars>>

PayCosts(costs) ==
  LET p == pay_costs(resources, costs)
  IN  /\ resources' = p.rs
      /\ last' = Last("pay_costs", "", 0, costs, {}, p.ret)
      /\ notified' = <<>>
      /\ UNCHANGED <<extVars, gameVars, timeVars>>

ApplyEffect(effect) ==
  /\ resources' = apply_effect(resources, effect)
  /\ ValuesBounded(resources')
  /\ last' = [Last("apply_effect", effect.resource, effect.value, <<>>, {}, TRUE)
                EXCEPT !.kind = effect.effect]
  /\ notified' = <<>>
  /\ UNCHANGED <<extVars, gameVars, timeVars>>

RecalculateProduction(owned) ==
  /\ resources' = recalculate_production(resources, owned, all_upgrades)
  /\ last' = [Last("recalculate_production", "", 0, <<>>, owned, TRUE)
                EXCEPT !.changed = (resources' # resources)]
  /\ notified' = <<>>
  /\ UNCHANGED <<extVars, gameVars, timeVars>>

NextRM ==
  \/ \E dt \in 0..MaxDt : Update(dt)
  \/ \E r \in SpendResources, n \in SpendAmounts : Spend(r, n)
  \/ \E costs \in CostLists : PayCosts(costs)
  \/ \E e \in EffectInputs : ApplyEffect(e)
  \/ \E owned \in OwnedInputs : RecalculateProduction(owned)

SpecRM == Init /\ [][NextRM]_vars

\* the arguments of check_and_unlock_resources
UnlockYears == START_YEAR..(START_YEAR + MaxYearsElapsed)

UnlockOwnedInputs == SUBSET {"u1", "a"}

CheckAndUnlockResources(year, owned) ==
  LET c == check_and_unlock_resources(resources, year, owned)
  IN  /\ resources' = c.rs
      /\ last' = Last("check_and_unlock_resources", "", year, <<>>, owned, c.ret)
      /\ notified' = <<>>
      /\ UNCHANGED <<extVars, gameVars, timeVars>>

NextUnlock ==
  \/ \E year \in UnlockYears, owned \in UnlockOwnedInputs :
       CheckAndUnlockResources(year, owned)
  \/ \E dt \in 0..MaxDt : Update(dt)

SpecUnlock == Init /\ [][NextUnlock]_vars

\* ---------------------------------------------------- TimeSystem operations
Listeners == {"L1", "L2"}

SpeedInputs == {0, 1, 2, 4, 8, 12, 64, 100}

\* the speed buttons of TimeControlUI: set_speed(time_multiplier * 2) and
\* set_speed(time_multiplier / 2); the half is offered where it is a whole
\* number of quarters, so that the argument is the one the code passes
SpeedButtonInputs(multiplier) ==
  {multiplier * 2} \cup (IF multiplier % 2 = 0 THEN {multiplier \div 2} ELSE {})

YearBounded(year) == year <= START_YEAR + MaxYearsElapsed

TimeUpdate(dt) ==
  LET t == TimeSystem_update(current_year, year_progress, time_multiplier,
                             paused, year_listeners, dt)
  IN  /\ YearBounded(t.current_year)
      /\ current_year' = t.current_year
      /\ year_progress' = t.year_progress
      /\ notified' = t.calls
      /\ last' = Last("time_update", "", dt, <<>>, {}, ~paused)
      /\ UNCHANGED <<extVars, resources, gameVars, time_multiplier, paused, year_listeners>>

SetSpeed(multiplier) ==
  /\ time_multiplier' = set_speed(multiplier)
  /\ last' = Last("set_speed", "", multiplier, <<>>, {}, TRUE)
  /\ notified' = <<>>
  /\ UNCHANGED <<extVars, resources, gameVars, current_year, year_progress, paused, year_listeners>>

TogglePause ==
  /\ paused' = ~paused
  /\ last' = Last("toggle_pause", "", 0, <<>>, {}, ~paused)
  /\ notified' = <<>>
  /\ UNCHANGED <<extVars, resources, gameVars, current_year, year_progress, time_multiplier,
                 year_listeners>>

AddYearListener(callback) ==
  /\ year_listeners' = IF InSeq(callback, year_listeners)
                         THEN year_listeners
                         ELSE Append(year_listeners, callback)
  /\ last' = Last("add_year_listener", callback, 0, <<>>, {}, TRUE)
  /\ notified' = <<>>
  /\ UNCHANGED <<extVars, resources, gameVars, current_year, year_progress, time_multiplier, paused>>

\* list.remove: drops the first occurrence of the callback, if there is one
remove_year_listener(listeners, callback) ==
  IF InSeq(callback, listeners)
    THEN LET i == CHOOSE k \in 1..Len(listeners) :
                     /\ listeners[k] = callback
                     /\ \A j \in 1..(k - 1) : listeners[j] # callback
         IN  SubSeq(listeners, 1, i - 1) \o SubSeq(listeners, i + 1, Len(listeners))
    ELSE listeners

RemoveYearListener(callback) ==
  /\ year_listeners' = remove_year_listener(year_listeners, callback)
  /\ last' = Last("remove_year_listener", callback, 0, <<>>, {}, TRUE)
  /\ notified' = <<>>
  /\ UNCHANGED <<extVars, resources, gameVars, current_year, year_progress, time_multiplier, paused>>

\* years handed to set_year: the start year and the years after it
SetYearInputs == START_YEAR..(START_YEAR + MaxYearsElapsed)

SetYear(year) ==
  LET t == set_year(current_year, year_progress, year_listeners, year)
  IN  /\ current_year' = t.current_year
      /\ year_progress' = t.year_progress
      /\ notified' = t.calls
      /\ last' = Last("set_year", "", year, <<>>, {}, TRUE)
      /\ UNCHANGED <<extVars, resources, gameVars, time_multiplier, paused, year_listeners>>

AdvanceYear ==
  LET t == advance_year(current_year, year_progress, year_listeners)
  IN  /\ YearBounded(t.current_year)
      /\ current_year' = t.current_year
      /\ year_progress' = t.year_progress
      /\ notified' = t.calls
      /\ last' = Last("advance_year", "", 0, <<>>, {}, TRUE)
      /\ UNCHANGED <<extVars, resources, gameVars, time_multiplier, paused, year_listeners>>

NextTime ==
  \/ \E dt \in 0..MaxDt : TimeUpdate(dt)
  \/ \E m \in SpeedInputs \cup SpeedButtonInputs(time_multiplier) : SetSpeed(m)
  \/ TogglePause
  \/ \E cb \in Listeners : AddYearListener(cb)
  \/ \E cb \in Listeners : RemoveYearListener(cb)
  \/ \E year \in SetYearInputs : SetYear(year)
  \/ AdvanceYear

SpecTime == Init /\ [][NextTime]_vars

\* ------------------------------------------------------ GameState operations
\* one frame of the game loop: TimeSystem.update(dt), then
\* GameState.update(dt, get_effective_time_scale())
Frame(dt) ==
  LET t == TimeSystem_update(current_year, year_progress, time_multiplier,
                             paused, year_listeners, dt)
      time_scale == get_effective_time_scale(paused, time_multiplier)
  IN  /\ (dt * time_scale) % Q = 0
      /\ YearBounded(t.current_year)
      /\ current_year' = t.current_year
      /\ year_progress' = t.year_progress
      /\ notified' = t.calls
      /\ resources' = GameState_update(resources, dt, time_scale)
      /\ ValuesBounded(resources')
      /\ last' = Last("frame", "", dt, <<>>, {}, TRUE)
      /\ UNCHANGED <<extVars, gameVars, time_multiplier, paused, year_listeners>>

PurchaseUpgrade(upgrade_id) ==
  LET p == purchase_upgrade(upgrade_id, resources, owned_upgrades,
                            selected_exclusive, current_year)
  IN  /\ resources' = p.rs
      /\ owned_upgrades' = p.owned
      /\ selected_exclusive' = p.selected
      /\ save_data' = written_through(save_data, p.selected)
      /\ last' = Last("purchase_upgrade", upgrade_id, 0, <<>>, {}, p.ret)
      /\ notified' = <<>>
      /\ UNCHANGED <<eventVars, timeVars>>

IsUpgradeAvailable(upgrade_id) ==
  /\ last' = Last("is_upgrade_available", upgrade_id, 0, <<>>, {},
                  is_upgrade_available(upgrade_id, owned_upgrades, selected_exclusive,
                                       current_year, resources))
  /\ notified' = <<>>
  /\ UNCHANGED <<extVars, resources, gameVars, timeVars>>

\* the status string is kept in the kind field of the observation
GetUpgradeStatus(upgrade_id) ==
  /\ last' = [Last("get_upgrade_status", upgrade_id, 0, <<>>, {}, TRUE)
                EXCEPT !.kind = get_upgrade_status(upgrade_id, owned_upgrades,
                                                   selected_exclusive, current_year,
                                                   resources)]
  /\ notified' = <<>>
  /\ UNCHANGED <<extVars, resources, gameVars, timeVars>>

Next ==
  \/ \E dt \in 0..MaxDt : Frame(dt)
  \/ \E id \in UpgradeIds \cup {UnknownUpgrade} : PurchaseUpgrade(id)
  \/ \E id \in UpgradeIds \cup {UnknownUpgrade} : IsUpgradeAvailable(id)
  \/ \E id \in UpgradeIds \cup {UnknownUpgrade} : GetUpgradeStatus(id)
  \/ TogglePause

Spec == Init /\ [][Next]_vars

\* the game loop with the speed keys of Game.on_key_press (0.5x, 1x, 2x)
FrameSpeeds == {Q \div 2, Q, 2 * Q}

NextFrame ==
  \/ \E dt \in 0..MaxDt : Frame(dt)
  \/ \E m \in FrameSpeeds : SetSpeed(m)
  \/ TogglePause
  \/ \E id \in UpgradeIds : PurchaseUpgrade(id)

SpecFrame == Init /\ [][NextFrame]_vars

\* target years of a time skip: backwards, the current year, and forwards
SkipTargets == (START_YEAR - 1)..(START_YEAR + MaxYearsElapsed + 2)

TimeSkipToYear(target_year) ==
  LET k == time_skip_to_year(resources, current_year, year_progress, year_listeners,
                             target_year)
  IN  /\ YearBounded(k.current_year)
      /\ resources' = k.rs
      /\ ValuesBounded(resources')
      /\ current_year' = k.current_year
      /\ year_progress' = k.year_progress
      /\ notified' = k.calls
      /\ last' = Last("time_skip_to_year", "", target_year, <<>>, {}, k.ret)
      /\ UNCHANGED <<extVars, gameVars, time_multiplier, paused, year_listeners>>

NextSkip ==
  \/ \E target_year \in SkipTargets : TimeSkipToYear(target_year)
  \/ \E id \in UpgradeIds : PurchaseUpgrade(id)
  \/ \E cb \in Listeners : AddYearListener(cb)
  \/ \E cb \in Listeners : RemoveYearListener(cb)
  \/ \E dt \in 0..MaxDt : TimeUpdate(dt)
  \/ SetSpeed(Q \div 2)

SpecSkip == Init /\ [][NextSkip]_vars

\* a session that is played and reset
ResetUpgrades == {"u1", "a", "b"}

Reset ==
  LET g == GameState_reset(resources)
  IN  /\ resources' = g.rs
      /\ owned_upgrades' = g.owned
      /\ selected_exclusive' = g.selected
      /\ current_year' = g.current_year
      /\ year_progress' = g.year_progress
      /\ paused' = g.paused
      /\ time_multiplier' = g.time_multiplier
      /\ save_data' = written_through(save_data, g.selected)
      /\ last' = Last("reset", "", 0, <<>>, {}, TRUE)
      /\ notified' = <<>>
      /\ UNCHANGED <<eventVars, year_listeners>>

NextReset ==
  \/ Reset
  \/ \E dt \in 0..MaxDt : Frame(dt)
  \/ \E id \in ResetUpgrades : PurchaseUpgrade(id)
  \/ CheckAndUnlockResources(current_year, owned_upgrades)
  \/ SetSpeed(2 * Q)
  \/ TogglePause

SpecReset == Init /\ [][NextReset]_vars

\* every operation that moves the clock, with a listener that raises and the
\* speeds 0.25x, 1x (the default) and 1.5x
ClockListenerInputs == {"L1"} \cup RaisingListeners

ClockSpeeds == {MIN_SPEED, (3 * Q) \div 2}

NextClock ==
  \/ \E cb \in ClockListenerInputs : AddYearListener(cb)
  \/ \E cb \in ClockListenerInputs : RemoveYearListener(cb)
  \/ \E dt \in 0..MaxDt : TimeUpdate(dt)
  \/ \E m \in ClockSpeeds : SetSpeed(m)
  \/ TogglePause
  \/ \E year \in SetYearInputs : SetYear(year)
  \/ AdvanceYear
  \/ \E target_year \in SkipTargets : TimeSkipToYear(target_year)

SpecClock == Init /\ [][NextClock]_vars

\* a session of play: frames, purchases and time skips
NextProgress ==
  \/ \E dt \in 0..MaxDt : Frame(dt)
  \/ \E id \in UpgradeIds \cup {UnknownUpgrade} : PurchaseUpgrade(id)
  \/ \E target_year \in SkipTargets : TimeSkipToYear(target_year)

SpecProgress == Init /\ [][NextProgress]_vars

\* the game loop with listeners that act on the game state
ListenerInputs == {"L1"} \cup DOMAIN BuyingListeners

ListenUpgrades == {"a", "b"}

\* one call of Game.update; the observation keeps whether a listener bought
\* something during the frame
GameUpdate(dt) ==
  LET g == Game_update(resources, owned_upgrades, selected_exclusive, current_year,
                       year_progress, time_multiplier, paused, year_listeners, dt)
  IN  /\ (dt * get_effective_time_scale(paused, time_multiplier)) % Q = 0
      /\ YearBounded(g.current_year)
      /\ current_year' = g.current_year
      /\ year_progress' = g.year_progress
      /\ notified' = g.calls
      /\ resources' = g.rs
      /\ ValuesBounded(resources')
      /\ owned_upgrades' = g.owned
      /\ selected_exclusive' = g.selected
      /\ save_data' = written_through(save_data, g.selected)
      /\ last' = [Last("game_update", "", dt, <<>>, {}, TRUE)
                    EXCEPT !.changed = (g.owned # owned_upgrades)]
      /\ UNCHANGED <<eventVars, time_multiplier, paused, year_listeners>>

NextListen ==
  \/ \E dt \in 0..MaxDt : GameUpdate(dt)
  \/ \E cb \in ListenerInputs : AddYearListener(cb)
  \/ \E cb \in ListenerInputs : RemoveYearListener(cb)
  \/ \E id \in ListenUpgrades : PurchaseUpgrade(id)
  \/ TogglePause

SpecListen == Init /\ [][NextListen]_vars

\* -------------------------------------------------- SaveSystem operations
\* upgrades bought in the sessions that save and restore
SaveUpgrades == {"u1", "a", "b"}

\* one payload is written per behaviour
Save ==
  /\ save_data = NoSave
  /\ save_data' = save(resources, owned_upgrades, selected_exclusive, current_year)
  /\ last' = Last("save", "", 0, <<>>, {}, TRUE)
  /\ notified' = <<>>
  /\ UNCHANGED <<resources, gameVars, timeVars, active_event, event_manager, event_system, event_popup>>

ApplySave ==
  LET a == apply_save(save_data, resources, owned_upgrades, selected_exclusive,
                      current_year)
  IN  /\ save_data # NoSave
      /\ resources' = a.rs
      /\ owned_upgrades' = a.owned
      /\ selected_exclusive' = a.selected
      /\ current_year' = a.current_year
      /\ save_data' = a.data
      /\ last' = [Last("apply_save", "", 0, <<>>, {}, FALSE) EXCEPT !.raised = a.raised]
      /\ notified' = <<>>
      /\ UNCHANGED <<eventVars, year_progress, time_multiplier, paused, year_listeners>>

NextSave ==
  \/ Save
  \/ ApplySave
  \/ \E id \in SaveUpgrades : PurchaseUpgrade(id)
  \/ Frame(1)
  \/ Reset

SpecSave == Init /\ [][NextSave]_vars

\* ------------------------------------------------ EventManager operations
\* the arguments of check_triggers
TriggerYears == START_YEAR..(START_YEAR + MaxYearsElapsed)

TriggerOwnedInputs == SUBSET {"u1", "a"}

CheckTriggers(year, owned) ==
  LET c == check_triggers(event_manager, year, owned)
  IN  /\ event_manager' = c.em
      /\ last' = Last("check_triggers", c.ret, year, <<>>, owned, c.ret # NoEvent)
      /\ notified' = <<>>
      /\ UNCHANGED <<resources, gameVars, timeVars, save_data, active_event, event_system, event_popup>>

ClearPending ==
  /\ event_manager' = clear_pending(event_manager)
  /\ last' = Last("clear_pending", "", 0, <<>>, {}, TRUE)
  /\ notified' = <<>>
  /\ UNCHANGED <<resources, gameVars, timeVars, save_data, active_event, event_system, event_popup>>

NextEM ==
  \/ \E year \in TriggerYears, owned \in TriggerOwnedInputs : CheckTriggers(year, owned)
  \/ ClearPending

SpecEM == Init /\ [][NextEM]_vars

\* ------------------------------------------------- EventSystem operations
\* the EventChoice objects handed to make_choice
Choices ==
  [ c_free |-> Choice("c_free", <<>>, <<>>, <<>>),
    c_pay  |-> Choice("c_pay", <<Effect(UnknownResource, "add", 1)>>,
                      <<Cost("rep", 1), Cost("money", 2)>>, <<"u1">>),
    c_eff  |-> Choice("c_eff", <<Effect("rep", "add", 1), Effect("money", "mult", 2)>>,
                      <<Cost("money", 3)>>, <<>>),
    c_dear |-> Choice("c_dear", <<>>, <<Cost("money", 20)>>, <<>>) ]

EsUpdate(dt) ==
  LET u == EventSystem_update(event_system, resources, dt)
  IN  /\ event_system' = u.es
      /\ last' = [Last("es_update", u.triggered, dt, <<>>, {}, u.triggered # NoEvent)
                    EXCEPT !.since = IF u.triggered = NoEvent THEN -1
                                     ELSE event_system.elapsed[u.triggered]]
      /\ notified' = <<>>
      /\ UNCHANGED <<resources, gameVars, timeVars, save_data, active_event, event_manager, event_popup>>

MakeChoice(choice) ==
  LET c == make_choice(event_system, choice, resources, owned_upgrades)
  IN  /\ event_system' = c.es
      /\ resources' = c.rs
      /\ last' = [Last("make_choice", choice.id, 0, choice.costs, {}, c.ret)
                    EXCEPT !.raised = c.raised]
      /\ notified' = <<>>
      /\ UNCHANGED <<gameVars, timeVars, save_data, active_event, event_manager, event_popup>>

NextES ==
  \/ \E dt \in 0..MaxDt : EsUpdate(dt)
  \/ \E id \in DOMAIN Choices : MakeChoice(Choices[id])
  \/ Update(1)
  \/ PurchaseUpgrade("u1")

SpecES == Init /\ [][NextES]_vars

\* -------------------------------------------------- EventPopup operations
PopupShow(event) ==
  LET p == EventPopup_show(event_popup, paused, event)
  IN  /\ event_popup' = p.popup
      /\ paused' = p.paused
      /\ last' = Last("popup_show", event, 0, <<>>, {}, TRUE)
      /\ notified' = <<>>
      /\ UNCHANGED <<resources, gameVars, current_year, year_progress, time_multiplier,
                     year_listeners, save_data, active_event, event_manager, event_system>>

PopupHide ==
  LET p == EventPopup_hide(event_popup, paused)
  IN  /\ event_popup' = p.popup
      /\ paused' = p.paused
      /\ last' = Last("popup_hide", "", 0, <<>>, {}, TRUE)
      /\ notified' = <<>>
      /\ UNCHANGED <<resources, gameVars, current_year, year_progress, time_multiplier,
                     year_listeners, save_data, active_event, event_manager, event_system>>

\* the player's pause command (space bar or the pause button): toggle_pause,
\* with the state the player chose noted
PlayerTogglePause ==
  /\ paused' = ~paused
  /\ event_popup' = [event_popup EXCEPT !.chosen = ~paused]
  /\ last' = Last("toggle_pause", "", 0, <<>>, {}, ~paused)
  /\ notified' = <<>>
  /\ UNCHANGED <<resources, gameVars, current_year, year_progress, time_multiplier,
                 year_listeners, save_data, active_event, event_manager, event_system>>

NextPopup ==
  \/ \E e \in DOMAIN Events : PopupShow(e)
  \/ PopupHide
  \/ PlayerTogglePause
  \/ \E dt \in 0..MaxDt : TimeUpdate(dt)

SpecPopup == Init /\ [][NextPopup]_vars

\* ----------------------------------------------- GameState event operations
\* the EventChoice objects handed to handle_event_choice
EventChoices ==
  [ gc_add  |-> EventChoice("gc_add", <<Cost("money", 2)>>, <<Effect("money", "add", 1)>>),
    gc_mult |-> EventChoice("gc_mult", <<>>, <<Effect("rep", "mult", 2)>>),
    gc_dear |-> EventChoice("gc_dear", <<Cost("money", 20)>>, <<Effect("rep", "add", 1)>>),
    gc_none |-> EventChoice("gc_none", <<>>, <<>>) ]

\* upgrades bought in the sessions with events
ChoiceUpgrades == {"u1", "a", "u2"}

CheckEvents ==
  LET c == check_events(active_event, event_manager, current_year, owned_upgrades)
  IN  /\ active_event' = c.active_event
      /\ event_manager' = c.em
      /\ last' = Last("check_events", c.active_event, 0, <<>>, {}, TRUE)
      /\ notified' = <<>>
      /\ UNCHANGED <<resources, gameVars, timeVars, save_data, event_system, event_popup>>

HandleEventChoice(choice) ==
  LET h == handle_event_choice(choice, resources, active_event, event_manager)
  IN  /\ resources' = h.rs
      /\ ValuesBounded(resources')
      /\ active_event' = h.active_event
      /\ event_manager' = h.em
      /\ last' = Last("handle_event_choice", choice.id, 0, choice.cost, {}, h.ret)
      /\ notified' = <<>>
      /\ UNCHANGED <<gameVars, timeVars, save_data, event_system, event_popup>>

NextChoice ==
  \/ CheckEvents
  \/ \E id \in DOMAIN EventChoices : HandleEventChoice(EventChoices[id])
  \/ \E id \in ChoiceUpgrades : PurchaseUpgrade(id)
  \/ Frame(1)

SpecChoice == Init /\ [][NextChoice]_vars

\* the active event is answered: a handle_event_choice call that succeeds
AnswerEvent ==
  /\ active_event # NoEvent
  /\ \E id \in DOMAIN EventChoices :
       /\ HandleEventChoice(EventChoices[id])
       /\ last'.ret

\* a session in which the clock runs, upgrades are bought, check_events is
\* called and events are answered; nothing in the repository schedules
\* check_events or handle_event_choice (Game.update calls neither), so the
\* specification states no fairness: either call may never happen
DeliveryUpgrades == {"u1", "a"}

NextDelivery ==
  \/ CheckEvents
  \/ \E id \in DOMAIN EventChoices : HandleEventChoice(EventChoices[id])
  \/ \E id \in DeliveryUpgrades : PurchaseUpgrade(id)
  \/ TimeUpdate(1)

SpecDelivery == Init /\ [][NextDelivery]_vars

\* ======================================================================
\* Properties
\* ======================================================================

\* sum of the amounts of the entries of a cost list that name resource r
RECURSIVE TotalCost(_, _, _)
TotalCost(costs, r, i) ==
  IF i > Len(costs) THEN 0
  ELSE (IF costs[i].resource = r THEN costs[i].amount ELSE 0) + TotalCost(costs, r, i + 1)

Modifiers(rs) ==
  [r \in DOMAIN rs |-> <<rs[r].base_additions, rs[r].total_multiplier>>]

Values(rs) == [r \in DOMAIN rs |-> rs[r].current_value]

\* C1: after every update, spend, pay_costs and apply_effect call, every
\* resource's current_value is at least its definition's min_value.
C1_ValueAtLeastMin ==
  last.op \in {"update", "spend", "pay_costs", "apply_effect"} =>
    \A r \in ResourceIds :
      resources[r].current_value >= ResourceDefinitions[r].min_value

\* C2: pay_costs is all-or-nothing for every cost list: when it returns true
\* every entry's amount has been deducted from its resource, when it returns
\* false no current_value has changed.
C2_PayCostsAllOrNothing ==
  [][ last'.op = "pay_costs" =>
        IF last'.ret
          THEN \A r \in ResourceIds :
                 resources'[r].current_value =
                   resources[r].current_value - TotalCost(last'.costs, r, 1)
          ELSE Values(resources') = Values(resources) ]_vars

\* C8: recalculate_production is idempotent: a second call with the same
\* owned set leaves the modifiers as the first call left them, and the
\* modifiers after a call are those obtained from a manager whose modifiers
\* were at base before the call.
C8_RecalculateIdempotent ==
  [][ last'.op = "recalculate_production" =>
        \A again \in {recalculate_production(resources', last'.owned, all_upgrades)},
           fresh \in {recalculate_production(ResourceManager_init, last'.owned,
                                             all_upgrades)} :
          /\ Modifiers(again) = Modifiers(resources')
          /\ Modifiers(resources') = Modifiers(fresh)
          /\ Values(resources') = Values(resources) ]_vars

\* a recalculation for an owned set with effects on both resources, called
\* when the modifiers present were different from the recalculated ones
C8_Witness ==
  /\ last.op = "recalculate_production"
  /\ last.owned = {"u1", "u2"}
  /\ last.changed
  /\ resources["money"].base_additions = 1
  /\ resources["rep"].total_multiplier = 2

\* C10: spend(id, amount) returns true and subtracts exactly amount iff the
\* resource exists and current_value >= amount; otherwise it returns false
\* and changes nothing; no other resource and no modifier changes.
C10_Spend ==
  [][ last'.op = "spend" =>
        LET ok == /\ last'.id \in ResourceIds
                  /\ resources[last'.id].current_value >= last'.amount
        IN  /\ last'.ret = ok
            /\ \A r \in ResourceIds :
                 resources'[r].current_value =
                   IF ok /\ r = last'.id
                     THEN resources[r].current_value - last'.amount
                     ELSE resources[r].current_value
            /\ Modifiers(resources') = Modifiers(resources)
            /\ \A r \in ResourceIds :
                 resources'[r].is_unlocked = resources[r].is_unlocked ]_vars

\* a spend of exactly the whole current value has succeeded
C10_Witness ==
  /\ last.op = "spend"
  /\ last.ret
  /\ last.amount = 10
  /\ last.id \in ResourceIds
  /\ resources[last.id].current_value = 0

\* the exclusive group names of an upgrade, as a set (an empty string names
\* no group)
GroupSet(upgrade) ==
  IF upgrade.exclusive_group.kind = "str" /\ upgrade.exclusive_group.names = <<"">>
    THEN {}
    ELSE {upgrade.exclusive_group.names[i] :
            i \in 1..Len(upgrade.exclusive_group.names)}

\* an entry of requires is satisfied: a plain id is owned, or at least one
\* id of a nested list is owned
EntrySatisfied(req, owned) ==
  IF req.isList
    THEN {req.ids[i] : i \in 1..Len(req.ids)} \cap owned # {}
    ELSE req.ids[1] \in owned

RequirementsSatisfied(upgrade, owned, year) ==
  /\ upgrade.year <= year
  /\ \A i \in 1..Len(upgrade.requires) : EntrySatisfied(upgrade.requires[i], owned)

ExclusiveFree(upgrade, selected) ==
  \A g \in GroupSet(upgrade) : g \in DOMAIN selected => selected[g] = upgrade.id

\* the effects that the upgrades of a set have on resource r, of one kind
EffectValues(owned, r, kind) ==
  { <<id, i>> \in UpgradeIds \X (1..3) :
      /\ id \in owned
      /\ i <= Len(all_upgrades[id].effects)
      /\ all_upgrades[id].effects[i].resource = r
      /\ all_upgrades[id].effects[i].effect = kind }

RECURSIVE SumOver(_)
SumOver(S) ==
  IF S = {} THEN 0
  ELSE LET x == CHOOSE y \in S : TRUE
       IN  all_upgrades[x[1]].effects[x[2]].value + SumOver(S \ {x})

RECURSIVE ProductOver(_)
ProductOver(S) ==
  IF S = {} THEN 1
  ELSE LET x == CHOOSE y \in S : TRUE
       IN  all_upgrades[x[1]].effects[x[2]].value * ProductOver(S \ {x})

\* C3: a purchase_upgrade call that returns false leaves owned_upgrades,
\* selected_exclusive and every resource's value and modifiers as they were.
C3_FailedPurchaseChangesNothing ==
  [][ (last'.op = "purchase_upgrade" /\ ~last'.ret) =>
        /\ owned_upgrades' = owned_upgrades
        /\ selected_exclusive' = selected_exclusive
        /\ resources' = resources ]_vars

\* a purchase of an available upgrade has failed on its cost, the first
\* entry of the cost being affordable and the second not
C3_Witness ==
  /\ last.op = "purchase_upgrade"
  /\ ~last.ret
  /\ last.id = "u3"
  /\ is_upgrade_available("u3", owned_upgrades, selected_exclusive, current_year, resources)
  /\ resources["money"].current_value >= 4
  /\ resources["rep"].current_value < 12

\* C4: a purchase_upgrade call that returns true has added the id to
\* owned_upgrades, reduced each resource by the amounts of the cost entries
\* naming it, recorded the id for every exclusive group of the upgrade, and
\* left the modifiers at the sum / product of the effects of the owned upgrades.
C4_SuccessfulPurchase ==
  [][ (last'.op = "purchase_upgrade" /\ last'.ret) =>
        LET upgrade == all_upgrades[last'.id]
        IN  /\ last'.id \in owned_upgrades'
            /\ \A r \in ResourceIds :
                 resources'[r].current_value =
                   resources[r].current_value - TotalCost(upgrade.cost, r, 1)
            /\ \A g \in GroupSet(upgrade) :
                 g \in DOMAIN selected_exclusive' /\ selected_exclusive'[g] = last'.id
            /\ \A r \in ResourceIds :
                 /\ resources'[r].base_additions
                      = SumOver(EffectValues(owned_upgrades', r, "add"))
                 /\ resources'[r].total_multiplier
                      = ProductOver(EffectValues(owned_upgrades', r, "mult")) ]_vars

\* C5: once an upgrade A of exclusive group G is owned, no other upgrade B of
\* G is available, in every later state.
C5_ExclusiveSiblingsBlocked ==
  \A A \in owned_upgrades \cap UpgradeIds :
    \A B \in UpgradeIds \ {A} :
      GroupSet(all_upgrades[A]) \cap GroupSet(all_upgrades[B]) # {} =>
        ~is_upgrade_available(B, owned_upgrades, selected_exclusive, current_year,
                              resources)

\* "a" is owned, an unrelated purchase and a year change have followed, and
\* "b" (whose group list names the shared group second) meets its
\* requirements and has its other group free
C5_Witness ==
  /\ "a" \in owned_upgrades
  /\ "u1" \in owned_upgrades
  /\ current_year > START_YEAR
  /\ "b" \notin owned_upgrades
  /\ "H" \notin DOMAIN selected_exclusive
  /\ check_requirements_met(all_upgrades["b"], owned_upgrades, current_year)

\* C6: check_requirements_met(upgrade) is true exactly when the upgrade's
\* year is <= current_year and every entry of requires is satisfied (a plain
\* id is owned; at least one id of a nested list is owned).
C6_RequirementsMet ==
  \A id \in UpgradeIds :
    check_requirements_met(all_upgrades[id], owned_upgrades, current_year)
      = RequirementsSatisfied(all_upgrades[id], owned_upgrades, current_year)

\* requires = [["a", "b"]] is met with exactly one of the two owned
C6_Witness ==
  /\ "a" \in owned_upgrades
  /\ "b" \notin owned_upgrades
  /\ "u3" \notin owned_upgrades
  /\ check_requirements_met(all_upgrades["u3"], owned_upgrades, current_year)

\* C9: is_upgrade_available(id) is false iff id is owned, unknown, fails its
\* requirements or is blocked by an exclusive group; it does not depend on
\* resource values, and the call changes no state.
C9_Availability ==
  [][ /\ \A id \in UpgradeIds \cup {UnknownUpgrade} :
           is_upgrade_available(id, owned_upgrades', selected_exclusive',
                                current_year', resources')
             = ~( \/ id \in owned_upgrades'
                  \/ id \notin UpgradeIds
                  \/ ~RequirementsSatisfied(all_upgrades[id], owned_upgrades',
                                            current_year')
                  \/ ~ExclusiveFree(all_upgrades[id], selected_exclusive') )
      /\ last'.op = "is_upgrade_available" =>
           /\ UNCHANGED <<resources, gameVars, timeVars>>
           /\ last'.ret =
                ( /\ last'.id \notin owned_upgrades
                  /\ last'.id \in UpgradeIds
                  /\ RequirementsSatisfied(all_upgrades[last'.id], owned_upgrades,
                                           current_year)
                  /\ ExclusiveFree(all_upgrades[last'.id], selected_exclusive) ) ]_vars

\* is_upgrade_available has returned true for an upgrade whose cost cannot
\* be afforded
C9_Witness ==
  /\ last.op = "is_upgrade_available"
  /\ last.ret
  /\ last.id \in UpgradeIds
  /\ ~can_afford(resources, all_upgrades[last.id].cost)

\* the years one listener was called with, in call order
RECURSIVE YearsFor(_, _, _)
YearsFor(calls, listener, i) ==
  IF i > Len(calls) THEN <<>>
  ELSE (IF calls[i][1] = listener THEN <<calls[i][2]>> ELSE <<>>)
         \o YearsFor(calls, listener, i + 1)

\* C7: an unpaused update that crosses k >= 1 year boundaries from year N
\* calls every registered listener exactly k times, with N+1, ..., N+k in
\* that order.
C7_ListenerPerYear ==
  [][ (last'.op = "time_update" /\ ~paused /\ current_year' > current_year) =>
        \A i \in 1..Len(year_listeners) :
          YearsFor(notified', year_listeners[i], 1)
            = [k \in 1..(current_year' - current_year) |-> current_year + k] ]_vars

\* C11: while the TimeSystem is paused, update(dt) changes neither
\* current_year nor year_progress and calls no year-change listener.
C11_PausedUpdateNoOp ==
  [][ (last'.op = "time_update" /\ paused) =>
        /\ current_year' = current_year
        /\ year_progress' = year_progress
        /\ notified' = <<>>
        /\ UNCHANGED <<time_multiplier, paused, year_listeners>> ]_vars

\* a paused update has been called with a dt that spans at least one year at
\* the current speed, with a listener registered
C11_Witness ==
  /\ last.op = "time_update"
  /\ paused
  /\ last.amount * time_multiplier * YEARS_PER_REAL_SECOND >= Q
  /\ Len(year_listeners) > 0

\* C13: min_multiplier <= time_multiplier <= max_multiplier after every
\* set_speed, toggle_pause and update call; set_speed(m) sets time_multiplier
\* to m inside the range and to the nearer bound outside it.
C13_SpeedClamped ==
  [][ /\ MIN_SPEED <= time_multiplier' /\ time_multiplier' <= MAX_SPEED
      /\ last'.op = "set_speed" =>
           time_multiplier' =
             IF last'.amount < MIN_SPEED THEN MIN_SPEED
             ELSE IF last'.amount > MAX_SPEED THEN MAX_SPEED
             ELSE last'.amount
      /\ last'.op \in {"time_update", "toggle_pause"} =>
           time_multiplier' = time_multiplier ]_vars

\* set_speed was called with a value below the minimum and the multiplier is
\* the minimum
C13_Witness ==
  /\ last.op = "set_speed"
  /\ last.amount < MIN_SPEED
  /\ time_multiplier = MIN_SPEED

\* C12: a frame step taken while paused leaves every resource's current_value
\* unchanged (the effective time scale is 0), and a frame step taken while
\* running integrates every resource over dt * time_multiplier.
C12_FrameScaled ==
  [][ last'.op = "frame" =>
        \A r \in ResourceIds :
          resources'[r].current_value =
            IF paused
              THEN resources[r].current_value
              ELSE Max(ResourceDefinitions[r].min_value,
                       resources[r].current_value
                         + (get_production_per_second(resources[r], ResourceDefinitions[r])
                              * last'.amount * time_multiplier) \div Q) ]_vars

\* C14: check_and_unlock_resources(current_year, owned_upgrades) unlocks a
\* locked resource exactly when unlock_year <= current_year and all its
\* requires are owned; an unlocked resource is never locked again; the call
\* returns true iff some resource went from locked to unlocked in that call.
C14_UnlockWhenDue ==
  [][ /\ \A r \in ResourceIds : resources[r].is_unlocked => resources'[r].is_unlocked
      /\ last'.op = "check_and_unlock_resources" =>
           /\ \A r \in ResourceIds :
                ~resources[r].is_unlocked =>
                  ( resources'[r].is_unlocked <=>
                      /\ ResourceDefinitions[r].unlock_year <= last'.amount
                      /\ \A i \in 1..Len(ResourceDefinitions[r].requires) :
                           ResourceDefinitions[r].requires[i] \in last'.owned )
           /\ last'.ret <=>
                \E r \in ResourceIds :
                  ~resources[r].is_unlocked /\ resources'[r].is_unlocked ]_vars

\* C15: a successful time_skip_to_year(target) from year N calls every
\* registered year-change listener exactly once per skipped year, with
\* N+1, N+2, ..., target in ascending order.
C15_SkipNotifiesEachYear ==
  [][ (last'.op = "time_skip_to_year" /\ last'.ret) =>
        \A i \in 1..Len(year_listeners) :
          YearsFor(notified', year_listeners[i], 1)
            = [k \in 1..(last'.amount - current_year) |-> current_year + k] ]_vars

\* the floor projection of a skip of n years for resource r
SkipProjection(r, n) ==
  resources[r].current_value
    + get_production_per_second(resources[r], ResourceDefinitions[r]) * n * 2

\* C16: time_skip_to_year(target) returns false and changes neither the
\* clock nor any resource value when target <= current_year or some resource
\* is projected below its floor; otherwise it returns true, current_year
\* becomes target, year_progress becomes 0, and every resource's value grows
\* by production_rate * (target - current_year) * 2 and stays >= min_value.
C16_TimeSkip ==
  [][ last'.op = "time_skip_to_year" =>
        LET target == last'.amount
            n == target - current_year
            refused ==
              \/ target <= current_year
              \/ \E r \in ResourceIds :
                   SkipProjection(r, n) < ResourceDefinitions[r].min_value
        IN  IF refused
              THEN /\ ~last'.ret
                   /\ current_year' = current_year
                   /\ year_progress' = year_progress
                   /\ Values(resources') = Values(resources)
              ELSE /\ last'.ret
                   /\ current_year' = target
                   /\ year_progress' = 0
                   /\ \A r \in ResourceIds :
                        /\ resources'[r].current_value = SkipProjection(r, n)
                        /\ resources'[r].current_value >= ResourceDefinitions[r].min_value ]_vars

\* a skip of several years has succeeded from the middle of a year, with a
\* resource that shrinks over the skip
C16_Witness ==
  /\ last.op = "time_skip_to_year"
  /\ last.ret
  /\ current_year = last.amount
  /\ current_year >= START_YEAR + 2
  /\ "a" \in owned_upgrades
  /\ resources["rep"].current_value < 10

\* C17: in every state reachable through purchases, frames and year changes,
\* no two distinct owned upgrades share an exclusive group name, also when
\* an upgrade lists several groups.
C17_OneOwnerPerGroup ==
  \A x \in owned_upgrades \cap UpgradeIds :
    \A y \in (owned_upgrades \cap UpgradeIds) \ {x} :
      GroupSet(all_upgrades[x]) \cap GroupSet(all_upgrades[y]) = {}

\* "b", which lists two groups, is owned, and the purchase of a member of
\* its second group has just been refused although its cost was affordable
C17_Witness ==
  /\ "b" \in owned_upgrades
  /\ last.op = "purchase_upgrade"
  /\ last.id = "a"
  /\ ~last.ret
  /\ can_afford(resources, all_upgrades["a"].cost)

\* C18: once selected_exclusive[g] has a value it is never overwritten with
\* a different id nor removed, and its value is always an owned upgrade that
\* lists g among its exclusive groups.
C18_SelectionOneWay ==
  [][ /\ \A g \in DOMAIN selected_exclusive :
           /\ g \in DOMAIN selected_exclusive'
           /\ selected_exclusive'[g] = selected_exclusive[g]
      /\ \A g \in DOMAIN selected_exclusive' :
           /\ selected_exclusive'[g] \in owned_upgrades' \cap UpgradeIds
           /\ g \in GroupSet(all_upgrades[selected_exclusive'[g]]) ]_vars

\* two groups are held by two different single-group upgrades, and the
\* purchase of "b", which lists both groups, has just been refused
C18_Witness ==
  /\ DOMAIN selected_exclusive = {"G", "H"}
  /\ selected_exclusive["G"] = "a"
  /\ selected_exclusive["H"] \in {"c", "d"}
  /\ last.op = "purchase_upgrade"
  /\ last.id = "b"
  /\ ~last.ret

\* C19: apply_effect(effect) changes only the modifiers of the target
\* resource: `add` increases base_additions by effect.value, `mult`
\* multiplies total_multiplier by effect.value, an unknown resource or any
\* other effect kind changes nothing; current_value is never changed.
C19_ApplyEffect ==
  [][ last'.op = "apply_effect" =>
        /\ DOMAIN resources' = DOMAIN resources
        /\ \A r \in ResourceIds :
             /\ resources'[r].current_value = resources[r].current_value
             /\ resources'[r].is_unlocked = resources[r].is_unlocked
             /\ resources'[r].base_additions =
                  IF r = last'.id /\ last'.kind = "add"
                    THEN resources[r].base_additions + last'.amount
                    ELSE resources[r].base_additions
             /\ resources'[r].total_multiplier =
                  IF r = last'.id /\ last'.kind = "mult"
                    THEN resources[r].total_multiplier * last'.amount
                    ELSE resources[r].total_multiplier ]_vars

\* effects of every case have been applied: an `add` (negative, on rep), a
\* `mult` (on money), and the last one had a kind that is neither
C19_Witness ==
  /\ last.op = "apply_effect"
  /\ last.kind \notin {"add", "mult"}
  /\ last.id \in ResourceIds
  /\ resources["rep"].base_additions < 0
  /\ resources["money"].total_multiplier > 1

\* C20 as stated: after a single `mult` effect of value v on a resource whose
\* total_multiplier is 1, total_multiplier equals 1 + v.
C20_MultFromBaseAdditive ==
  [][ ( /\ last'.op = "apply_effect"
        /\ last'.kind = "mult"
        /\ last'.id \in ResourceIds
        /\ resources[last'.id].total_multiplier = 1 ) =>
        resources'[last'.id].total_multiplier = 1 + last'.amount ]_vars

\* C20, amended: after a single `mult` effect of value v on a resource whose
\* total_multiplier is 1, total_multiplier equals v (the product 1 * v).
C20_MultFromBase ==
  [][ ( /\ last'.op = "apply_effect"
        /\ last'.kind = "mult"
        /\ last'.id \in ResourceIds
        /\ resources[last'.id].total_multiplier = 1 ) =>
        resources'[last'.id].total_multiplier = last'.amount ]_vars

\* a `mult` effect of value 2 has been applied to rep, whose multiplier was
\* at base (the multipliers reached are 1 and 2 only)
C20_Witness ==
  /\ last.op = "apply_effect"
  /\ last.kind = "mult"
  /\ last.id = "rep"
  /\ last.amount = 2
  /\ resources["rep"].total_multiplier = 2
  /\ resources["rep"].base_additions = 0

\* C21: update(dt) sets every resource's current_value to
\* max(min_value, old_value + (base_production + base_additions) *
\* total_multiplier * dt), never clamps from above, and leaves
\* base_additions, total_multiplier and is_unlocked unchanged.
C21_UpdateIntegrates ==
  [][ last'.op = "update" =>
        \A r \in ResourceIds :
          /\ resources'[r].current_value =
               Max(ResourceDefinitions[r].min_value,
                   resources[r].current_value
                     + (ResourceDefinitions[r].base_production + resources[r].base_additions)
                         * resources[r].total_multiplier * last'.amount)
          /\ resources'[r].base_additions = resources[r].base_additions
          /\ resources'[r].total_multiplier = resources[r].total_multiplier
          /\ resources'[r].is_unlocked = resources[r].is_unlocked ]_vars

\* an update over a positive dt has run with rep's production negative and
\* has left rep on its floor, while money carries a multiplier
C21_Witness ==
  /\ last.op = "update"
  /\ last.amount > 0
  /\ resources["rep"].base_additions < -1
  /\ resources["rep"].current_value = ResourceDefinitions["rep"].min_value
  /\ resources["money"].total_multiplier > 1

\* the listener calls of one operation are: every registered listener once,
\* in registration order, each with year y
CalledOnceInOrder(calls, listeners, y) ==
  calls = [i \in 1..Len(listeners) |-> <<listeners[i], y>>]

\* no listener is registered twice
NoDuplicateListeners(listeners) ==
  \A i, j \in 1..Len(listeners) : listeners[i] = listeners[j] => i = j

\* C30 as stated: set_year(y) sets current_year to y, year_progress to 0 and
\* calls every registered listener once with y; advance_year() adds one to
\* current_year, sets year_progress to 0 and calls every registered listener
\* once with the new year; calls are in registration order and a listener
\* registered twice is called once.
C30_ManualYearNotifies ==
  [][ /\ NoDuplicateListeners(year_listeners')
      /\ last'.op = "set_year" =>
           /\ current_year' = last'.amount
           /\ year_progress' = 0
           /\ CalledOnceInOrder(notified', year_listeners, last'.amount)
      /\ last'.op = "advance_year" =>
           /\ current_year' = current_year + 1
           /\ year_progress' = 0
           /\ CalledOnceInOrder(notified', year_listeners, current_year + 1) ]_vars

\* C30, amended: as above, except that set_year(y) with y equal to the
\* current year calls no listener (it still sets year_progress to 0).
C30_ManualYearNotifiesOnChange ==
  [][ /\ NoDuplicateListeners(year_listeners')
      /\ last'.op = "set_year" =>
           /\ current_year' = last'.amount
           /\ year_progress' = 0
           /\ IF last'.amount # current_year
                THEN CalledOnceInOrder(notified', year_listeners, last'.amount)
                ELSE notified' = <<>>
      /\ last'.op = "advance_year" =>
           /\ current_year' = current_year + 1
           /\ year_progress' = 0
           /\ CalledOnceInOrder(notified', year_listeners, current_year + 1) ]_vars

\* set_year has moved the clock back to the start year, and both of the two
\* registered listeners have been called with it
C30_Witness ==
  /\ last.op = "set_year"
  /\ Len(year_listeners) = 2
  /\ Len(notified) = 2
  /\ notified[1][2] = START_YEAR
  /\ current_year = START_YEAR

\* C22: apply_save on a payload produced by save completes without error
\* and yields owned_upgrades, selected_exclusive, every resource's
\* current_value and current_year equal to the saved ones, with every
\* resource's modifiers recomputed from the restored owned_upgrades.
C22_RestoreSave ==
  [][ last'.op = "apply_save" =>
        /\ ~last'.raised
        /\ owned_upgrades' = save_data.owned_upgrades
        /\ selected_exclusive' = save_data.selected_exclusive
        /\ Values(resources') = save_data.resources
        /\ current_year' = save_data.current_year
        /\ Modifiers(resources')
             = Modifiers(recalculate_production(resources', owned_upgrades',
                                                all_upgrades)) ]_vars

\* C23: check_triggers returns each event at most once over any sequence of
\* check_triggers and clear_pending calls: an event that has been returned
\* (triggered = true) stays triggered and is never returned again.
C23_EventReturnedOnce ==
  [][ /\ event_manager.triggered \subseteq event_manager'.triggered
      /\ (last'.op = "check_triggers" /\ last'.id # NoEvent) =>
           /\ last'.id \notin event_manager.triggered
           /\ last'.id \in event_manager'.triggered ]_vars

\* after clear_pending, a check in a year that still meets e_year's
\* condition has returned nothing, e_year having been returned before
C23_Witness ==
  /\ last.op = "check_triggers"
  /\ last.id = NoEvent
  /\ event_manager.pending_event = NoEvent
  /\ "e_year" \in event_manager.triggered
  /\ event_due(Events["e_year"], last.amount, last.owned)

\* C24: while pending_event is set, check_triggers returns None and marks no
\* further event as triggered, whatever the year and owned upgrades; only
\* clear_pending unsets pending_event, so only after it can another event
\* be returned.
C24_PendingBlocks ==
  [][ /\ (last'.op = "check_triggers" /\ event_manager.pending_event # NoEvent) =>
           /\ last'.id = NoEvent
           /\ event_manager' = event_manager
      /\ (event_manager.pending_event # NoEvent
            /\ event_manager'.pending_event # event_manager.pending_event) =>
           /\ last'.op = "clear_pending"
           /\ event_manager'.pending_event = NoEvent ]_vars

\* check_triggers has returned nothing because an event is pending, although
\* an event that was never triggered meets its condition
C24_Witness ==
  /\ last.op = "check_triggers"
  /\ last.id = NoEvent
  /\ event_manager.pending_event # NoEvent
  /\ \E e \in DOMAIN Events :
       /\ e \notin event_manager.triggered
       /\ event_due(Events[e], last.amount, last.owned)

\* C25: a one_time event becomes the active event at most once over any
\* sequence of update and make_choice calls: it is recorded when it
\* triggers, the record is kept, and a recorded event is not made active.
C25_OneTimeOnce ==
  [][ /\ event_system.triggered_events \subseteq event_system'.triggered_events
      /\ \A e \in DOMAIN ThresholdEvents :
           ( /\ ThresholdEvents[e].one_time
             /\ event_system'.active_event = e
             /\ event_system.active_event # e ) =>
             /\ e \notin event_system.triggered_events
             /\ e \in event_system'.triggered_events ]_vars

\* an update has triggered an event that comes after "boom" in the event
\* order while boom's trigger holds: boom was skipped as already triggered
C25_Witness ==
  /\ last.op = "es_update"
  /\ last.id \in {"tick", "low", "poor"}
  /\ "boom" \in event_system.triggered_events
  /\ check_event_triggers(ThresholdEvents["boom"], resources)

\* an event that update would consider: not a recorded one-time event, not
\* on cooldown after this update's dt, and with all its triggers met
Eligible(e, dt) ==
  /\ ~(ThresholdEvents[e].one_time /\ e \in event_system.triggered_events)
  /\ ~(e \in DOMAIN event_system.event_cooldowns /\ event_system.event_cooldowns[e] - dt > 0)
  /\ check_event_triggers(ThresholdEvents[e], resources)

\* C26: at most one event is active at a time: while active_event is set,
\* update triggers no event (active_event and triggered_events unchanged, no
\* on_event_triggered callback), and one update triggers at most one event
\* even if several events' triggers hold.
C26_OneActiveEvent ==
  [][ last'.op = "es_update" =>
        /\ event_system.active_event # NoEvent =>
             /\ event_system'.active_event = event_system.active_event
             /\ event_system'.triggered_events = event_system.triggered_events
             /\ last'.id = NoEvent
        /\ Cardinality(event_system'.triggered_events \ event_system.triggered_events) <= 1
        /\ Cardinality({e \in DOMAIN ThresholdEvents :
                          event_system'.elapsed[e] = 0 /\ event_system.elapsed[e] # 0}) <= 1
        /\ last'.id # NoEvent => event_system'.active_event = last'.id ]_vars

\* an update has run while an event was active and another event was
\* eligible, and has triggered nothing
C26_Witness ==
  /\ last.op = "es_update"
  /\ last.id = NoEvent
  /\ event_system.active_event # NoEvent
  /\ \E e \in DOMAIN ThresholdEvents \ {event_system.active_event} : Eligible(e, 0)

\* C27: a repeatable event with cooldown c > 0 that triggered at some update
\* is not triggered again until the dt of later update calls has summed to
\* at least c.
C27_CooldownRespected ==
  [][ \A e \in DOMAIN ThresholdEvents :
        ( /\ last'.op = "es_update"
          /\ last'.id = e
          /\ ~ThresholdEvents[e].one_time
          /\ ThresholdEvents[e].cooldown > 0
          /\ event_system.elapsed[e] >= 0 ) =>
          event_system.elapsed[e] + last'.amount >= ThresholdEvents[e].cooldown ]_vars

\* "tick" has triggered again, its cooldown having run out during the
\* update that triggered it
C27_Witness ==
  /\ last.op = "es_update"
  /\ last.id = "tick"
  /\ last.since >= 0
  /\ last.since < ThresholdEvents["tick"].cooldown
  /\ last.amount > 0

\* C28: make_choice, called while an event is active with all requirements
\* owned and the costs affordable, returns true having deducted every cost,
\* applied every effect to the target resources' modifiers and cleared
\* active_event; otherwise it returns false and changes no state.
C28_MakeChoice ==
  [][ last'.op = "make_choice" =>
        LET choice == Choices[last'.id]
            accepted ==
              /\ event_system.active_event # NoEvent
              /\ \A i \in 1..Len(choice.requirements) :
                   choice.requirements[i] \in owned_upgrades
              /\ can_afford(resources, choice.costs)
        IN  /\ ~last'.raised
            /\ last'.ret = accepted
            /\ IF accepted
                 THEN /\ \A r \in ResourceIds :
                           resources'[r].current_value
                             = resources[r].current_value - TotalCost(choice.costs, r, 1)
                      /\ Modifiers(resources')
                           = Modifiers(apply_effects(resources, choice.effects, 1))
                      /\ event_system'.active_event = NoEvent
                 ELSE /\ resources' = resources
                      /\ event_system' = event_system ]_vars

\* C29: effects applied by handle_event_choice are permanent: what they
\* contributed to base_additions and total_multiplier (the part that does
\* not come from owned upgrades) is still there after any later
\* purchase_upgrade.
C29_ChoiceEffectsPermanent ==
  [][ (last'.op = "purchase_upgrade" /\ last'.ret) =>
        \A r \in ResourceIds :
          /\ resources'[r].base_additions - SumOver(EffectValues(owned_upgrades', r, "add"))
               = resources[r].base_additions - SumOver(EffectValues(owned_upgrades, r, "add"))
          /\ resources'[r].total_multiplier * ProductOver(EffectValues(owned_upgrades, r, "mult"))
               = resources[r].total_multiplier
                   * ProductOver(EffectValues(owned_upgrades', r, "mult")) ]_vars

\* ---------------------------------------------------------------- C31
\* the statuses get_upgrade_status can give a known upgrade that is neither
\* owned nor available
BlockedStatuses(upgrade) ==
  {locked_year(upgrade.year), "exclusive_blocked", "requirements_not_met", "cannot_afford"}

\* C31: get_upgrade_status(id) agrees with the purchase logic in the state it
\* is called in: it returns "owned" exactly when id is in owned_upgrades; it
\* returns "available" exactly when purchase_upgrade(id) would return True in
\* that state, which is when is_upgrade_available(id) holds and the cost is
\* affordable; every other known id gets one of locked_year_<N> (N the
\* upgrade's year, which is after the current year), exclusive_blocked (one of
\* its groups is taken by another upgrade), requirements_not_met (a requires
\* entry is not satisfied) or cannot_afford (can_afford of its cost is false),
\* and the condition it names holds.
C31_StatusConsistent ==
  last.op = "get_upgrade_status" =>
    LET id == last.id
        status == last.kind
        p == purchase_upgrade(id, resources, owned_upgrades, selected_exclusive,
                              current_year)
        avail == is_upgrade_available(id, owned_upgrades, selected_exclusive,
                                      current_year, resources)
    IN  /\ (status = "owned") <=> (id \in owned_upgrades)
        /\ (status = "available") <=> p.ret
        /\ (status = "available") <=>
             (avail /\ id \in UpgradeIds /\ can_afford(resources, all_upgrades[id].cost))
        /\ (id \in UpgradeIds /\ status \notin {"owned", "available"}) =>
             LET upgrade == all_upgrades[id]
             IN  /\ status \in BlockedStatuses(upgrade)
                 /\ status = locked_year(upgrade.year) => upgrade.year > current_year
                 /\ status = "exclusive_blocked" => ~ExclusiveFree(upgrade, selected_exclusive)
                 /\ status = "requirements_not_met" =>
                      \E i \in 1..Len(upgrade.requires) :
                        ~EntrySatisfied(upgrade.requires[i], owned_upgrades)
                 /\ status = "cannot_afford" => ~can_afford(resources, upgrade.cost)

\* the status of u3 is asked in its unlock year with one of a, b owned and too
\* little rep for its cost: every check but the last passes
C31_Witness ==
  /\ last.op = "get_upgrade_status"
  /\ last.id = "u3"
  /\ last.kind = "cannot_afford"
  /\ current_year >= all_upgrades["u3"].year
  /\ owned_upgrades \cap {"a", "b"} # {}

\* ---------------------------------------------------------------- C32
\* C32: within one frame (TimeSystem.update(dt), then GameState.update(dt,
\* scale)) the production of that dt is integrated with the production rate
\* that held at the start of the frame: what the frame adds to a resource, on
\* top of the value the listeners' purchases left, is the rate before the
\* frame times the scaled dt (floored at min_value), whether or not a
\* year-change listener bought an upgrade during the frame.
C32_FrameUsesStartRate ==
  [][ last'.op = "game_update" =>
        LET g == Game_update(resources, owned_upgrades, selected_exclusive, current_year,
                             year_progress, time_multiplier, paused, year_listeners,
                             last'.amount)
            scaled_dt == (last'.amount * get_effective_time_scale(paused, time_multiplier)) \div Q
        IN  \A r \in DOMAIN resources :
              resources'[r].current_value =
                Max(ResourceDefinitions[r].min_value,
                    g.before_update[r].current_value
                      + get_production_per_second(resources[r], ResourceDefinitions[r])
                          * scaled_dt) ]_vars

\* ---------------------------------------------------------------- C33
\* upgrade v shares an exclusive group with upgrade u
Sibling(v, u) ==
  /\ v \in UpgradeIds
  /\ v # u
  /\ GroupSet(all_upgrades[v]) \cap GroupSet(all_upgrades[u]) # {}

\* C33: over frames, purchases and time skips an upgrade's progression is
\* monotonic: check_requirements_met(u) once true stays true, an owned upgrade
\* stays owned, an exclusive-blocked upgrade stays blocked, and an available
\* upgrade stops being available only in a step that is a successful
\* purchase_upgrade of that upgrade or of a sibling in one of its groups.
C33_ProgressionMonotonic ==
  [][ \A u \in UpgradeIds :
        LET upgrade == all_upgrades[u]
        IN  /\ check_requirements_met(upgrade, owned_upgrades, current_year)
                 => check_requirements_met(upgrade, owned_upgrades', current_year')
            /\ u \in owned_upgrades => u \in owned_upgrades'
            /\ ~check_exclusive_group_available(upgrade, selected_exclusive)
                 => ~check_exclusive_group_available(upgrade, selected_exclusive')
            /\ ( /\ is_upgrade_available(u, owned_upgrades, selected_exclusive,
                                         current_year, resources)
                 /\ ~is_upgrade_available(u, owned_upgrades', selected_exclusive',
                                          current_year', resources') )
                 => /\ last'.op = "purchase_upgrade"
                    /\ last'.ret
                    /\ last'.id \in owned_upgrades' \ owned_upgrades
                    /\ last'.id = u \/ Sibling(last'.id, u) ]_vars

\* after the clock has moved on, d was bought while group G was free: its
\* sibling b, available until then, is blocked by this purchase, with its
\* requirements still met
C33_Witness ==
  /\ last.op = "purchase_upgrade"
  /\ last.id = "d"
  /\ last.ret
  /\ current_year > START_YEAR
  /\ "G" \notin DOMAIN selected_exclusive
  /\ "b" \notin owned_upgrades
  /\ check_requirements_met(all_upgrades["b"], owned_upgrades, current_year)
  /\ ~check_exclusive_group_available(all_upgrades["b"], selected_exclusive)

\* ---------------------------------------------------------------- C34
\* the operations that move the clock to another year
YearOps == {"time_update", "set_year", "advance_year", "time_skip_to_year"}

\* the listeners registered after position k
ListenersAfter(listeners, k) == {listeners[j] : j \in (k + 1)..Len(listeners)}

\* C34: no exception of a year-change listener leaves the simulation step:
\* whenever a listener raises during TimeSystem.update, set_year,
\* advance_year or time_skip_to_year (a raising listener is called during the
\* operation), every listener registered after it is called after it with
\* the new year, the year the raising listener was given is already the
\* clock's year, and the call returns normally.
C34_ListenerErrorsContained ==
  [][ last'.op \in YearOps =>
        \A i \in 1..Len(notified') :
          notified'[i][1] \in RaisingListeners =>
            /\ ~last'.raised
            /\ notified'[i][2] = current_year'
            /\ \A k \in 1..Len(year_listeners) :
                 year_listeners[k] = notified'[i][1] =>
                   \A l \in ListenersAfter(year_listeners, k) :
                     \E j \in (i + 1)..Len(notified') :
                       notified'[j] = <<l, current_year'>> ]_vars

\* a listener that raises is registered before another one, the clock has
\* moved to a later year, the raising listener was called and the listener
\* after it was called as well
C34_Witness ==
  /\ last.op \in {"time_update", "set_year", "advance_year"}
  /\ ~last.raised
  /\ year_listeners = <<"bad", "L1">>
  /\ current_year > START_YEAR
  /\ notified = <<(<<"bad", current_year>>), (<<"L1", current_year>>)>>

\* ---------------------------------------------------------------- C35
\* C35: an unpaused TimeSystem.update(dt) with dt >= 0 conserves simulated
\* time: current_year + year_progress grows by exactly
\* dt * years_per_real_second * time_multiplier and current_year does not
\* decrease; and 0 <= year_progress < 1 after update, set_year, advance_year
\* and time_skip_to_year.  (Fixed point: one year is Q.)
C35_TimeConserved ==
  [][ /\ (last'.op = "time_update" /\ ~paused /\ last'.amount >= 0) =>
           /\ Q * current_year' + year_progress' =
                Q * current_year + year_progress
                  + last'.amount * YEARS_PER_REAL_SECOND * time_multiplier
           /\ current_year' >= current_year
      /\ last'.op \in YearOps =>
           (0 <= year_progress' /\ year_progress' < Q) ]_vars

\* an update of two seconds at 1.5x has run with a listener registered and
\* crossed a year boundary, ending part-way through a year
C35_Witness ==
  /\ last.op = "time_update"
  /\ last.ret
  /\ last.amount = 2
  /\ time_multiplier = (3 * Q) \div 2
  /\ notified # <<>>
  /\ year_progress > 0

\* ---------------------------------------------------------------- C36
\* C36: prerequisite closure.  In every state reached from an empty owned set
\* through purchases, frames and time skips, every owned upgrade is a catalog
\* id whose year is <= current_year and whose every requires entry is
\* satisfied by owned_upgrades (a plain id is owned; at least one id of a
\* nested list is owned).
C36_PrerequisiteClosure ==
  \A u \in owned_upgrades :
    /\ u \in UpgradeIds
    /\ RequirementsSatisfied(all_upgrades[u], owned_upgrades, current_year)

\* u3 (year-locked, requires a or b) and u2 (requires u1) are both owned
C36_Witness ==
  /\ {"u2", "u3"} \subseteq owned_upgrades
  /\ current_year >= all_upgrades["u3"].year

\* ---------------------------------------------------------------- C37
\* C37: the popup's pause is balanced under every interleaving of show, hide
\* and the player's toggle_pause: while the popup is visible the TimeSystem is
\* paused, and after hide the paused flag is the value the player last chose
\* (running if the player never paused).
C37_PopupPauseBalanced ==
  /\ event_popup.visible => paused
  /\ last.op = "popup_hide" => paused = event_popup.chosen

\* ---------------------------------------------------------------- C38
\* C38: over check_events and handle_event_choice calls GameState.active_event
\* and EventManager.pending_event stay in step: one is set exactly when the
\* other is, and to the same event; a handle_event_choice that returns false
\* (the choice is not affordable) changes neither of them nor any resource.
C38_ActiveMatchesPending ==
  [][ /\ active_event = event_manager.pending_event
      /\ active_event' = event_manager'.pending_event
      /\ (last'.op = "handle_event_choice" /\ ~last'.ret) =>
           /\ active_event' = active_event
           /\ event_manager' = event_manager
           /\ resources' = resources ]_vars

\* with one event already answered, a second one is active and pending, and
\* a choice that costs more than the player has was refused
C38_Witness ==
  /\ last.op = "handle_event_choice"
  /\ ~last.ret
  /\ active_event # NoEvent
  /\ active_event = event_manager.pending_event
  /\ event_manager.triggered \ {active_event} # {}

\* ---------------------------------------------------------------- C39
\* the claim's two assumptions about the caller: check_events keeps being
\* called, and an event that stays active is eventually answered
KeepsCheckingEvents == WF_vars(CheckEvents)

EveryEventAnswered == WF_vars(AnswerEvent)

\* C39: event delivery is live.  In every behaviour in which check_events
\* keeps being called and every active event is eventually answered, every
\* year or upgrades event whose trigger condition holds (current_year >=
\* trigger_value, or all its trigger upgrades owned) and that has not been
\* delivered yet eventually becomes the active event, however many other
\* events are due as well.  The two assumptions are the claim's hypothesis,
\* not a property of the program's scheduling.
C39_EventDelivered ==
  (KeepsCheckingEvents /\ EveryEventAnswered) =>
    \A e \in DOMAIN Events :
      ( /\ Events[e].trigger_type \in {"year", "upgrades"}
        /\ event_due(Events[e], current_year, owned_upgrades)
        /\ e \notin event_manager.triggered )
        ~> (active_event = e)

\* three events are due at once and none of them has been delivered
C39_Witness ==
  /\ Cardinality({e \in DOMAIN Events :
                    /\ event_due(Events[e], current_year, owned_upgrades)
                    /\ e \notin event_manager.triggered}) >= 3
  /\ active_event = NoEvent

\* ---------------------------------------------------------------- C40
\* C40: after any sequence of operations GameState.reset() returns the session
\* to its initial conditions: owned_upgrades and selected_exclusive are empty,
\* every resource has current_value = base_production * 10, base_additions = 0,
\* total_multiplier = 1 and the is_unlocked it had at construction, and the
\* TimeSystem has current_year = start_year, year_progress = 0, paused = false
\* and its initial time_multiplier.
C40_ResetRestoresInitial ==
  last.op = "reset" =>
    /\ owned_upgrades = {}
    /\ selected_exclusive = EmptyDict
    /\ \A r \in ResourceIds :
         /\ resources[r].current_value =
              ResourceDefinitions[r].base_production * INITIAL_VALUE_FACTOR
         /\ resources[r].base_additions = 0
         /\ resources[r].total_multiplier = 1
         /\ resources[r].is_unlocked = ResourceManager_init[r].is_unlocked
    /\ current_year = START_YEAR
    /\ year_progress = 0
    /\ ~paused
    /\ time_multiplier = DEFAULT_SPEED

====
